---- MODULE Spec2Model ----
(***************************************************************************)
(* The synchronization engine of deere-connector: the single-field sync,   *)
(* the farmer snapshot, the farmer sweep and the normalized-operations     *)
(* endpoint of app/main.py, over the SQLite tables of app/database.py and  *)
(* the remote hierarchy client of app/jdoc_api.py.                         *)
(*                                                                         *)
(* Python's None is the empty tuple and a present value x is <<x>>, so     *)
(* that optional values of any type can be compared.  Dates are integers   *)
(* (days); the ISO strings of the code are ordered the same way.           *)
(***************************************************************************)
EXTENDS Integers, Sequences, FiniteSets, Bags, TLC

None == <<>>
Some(x) == <<x>>

(* ------------------------------ bounds -------------------------------- *)
\* the clock runs from 0 to MaxNow
MaxNow == 2
\* number of requests served in one behaviour
MaxRequests == 2
\* number of failures (remote or store) injected in one behaviour
MaxFaults == 2

\* timedelta(days=365*lookback_years)
DaysPerYear == 365

(* ------------------- the remote account (environment) ----------------- *)
Farmers == {"farmer1"}
RemoteOrgs == <<"o1", "o2">>
OrgIds == {"o1", "o2"}
FieldIds == {"A", "B", "C", "D"}
RemoteFields == [o1 |-> <<"A", "B", "C">>, o2 |-> <<"D">>]
OrgOf == [A |-> "o1", B |-> "o1", C |-> "o1", D |-> "o2"]
OrgName == [o1 |-> "Org One", o2 |-> "Org Two"]
FieldName == [A |-> "North", B |-> "South", C |-> "East", D |-> "West"]

\* A JSON value as dict.get returns it: <<"null">> (null, or the key is
\* missing), <<"str", s>>, <<"iso", d>> (a string that is an ISO-8601
\* timestamp of day d), <<"num", n>>, <<"list", items>>, <<"dict", record>>,
\* and <<"obj">> (a JSON object with none of the keys that are read)
JStr(s) == <<"str", s>>
JNull == <<"null">>
JObj == <<"obj">>
JIso(d) == <<"iso", d>>
JNum(n) == <<"num", n>>
JList(items) == <<"list", items>>
JDict(record) == <<"dict", record>>
\* the key is not in the dict ('"area" in raw_operation' tells it from null)
JAbsent == <<"absent">>

\* One vendor field operation: id is None when the record carries no "id"
RawOp(id, startDate, type, cropName) ==
    [id |-> id, startDate |-> JIso(startDate), endDate |-> JNull,
     fieldOperationType |-> JStr(type), cropName |-> cropName,
     varieties |-> JNull, area |-> JAbsent]

RemoteOps ==
    [A |-> << RawOp(Some("op1"), 1, "seeding", JStr("Corn")),
              RawOp(None, 2, "harvest", JStr("Corn")) >>,
     B |-> << RawOp(Some("op3"), 1, "tillage", JObj),
              RawOp(Some("op5"), 1, "harvest", JStr("Wheat")) >>,
     C |-> << RawOp(Some("op4"), 2, "application", JNull) >>,
     D |-> << RawOp(None, 1, "seeding", JStr("Soy")) >>]

\* what a caller may send
Modes == {"full_history", "incremental"}
Lookbacks == {1}
Dates == {None, Some(1)}

\* outcome of one remote call: a result, no usable token / HTTP 401, or
\* any other failure (403, another status, a timeout)
Outcomes == {"ok", "auth", "error"}

Keys == {<<u, OrgOf[f], f>> : u \in Farmers, f \in FieldIds}

(* ------------------------------- state -------------------------------- *)
VARIABLES
    now,                    \* datetime.now()
    field_sync_state,       \* table: key -> None or <<row>>
    connected_organizations, \* table: set of <<user_id, org_id>>
    organizations,          \* table: set of org_id
    fields,                 \* table: field_id -> None or <<org_id>>
    operations_raw,         \* table: bag of rows
    operations_normalized,  \* table: bag of rows
    reqs,                   \* the request each handler slot is serving
    started,                \* requests started so far
    faults,                 \* failures injected so far
    clock,                  \* datetime.now() of the token manager, in seconds
    user_tokens,            \* table: bag of rows, UNIQUE(user_id)
    oauth_states,           \* main.oauth_states: set of <<state, farmer_id>>
    issued,                 \* token sets the provider has issued so far
    history,                \* the token manager's operations so far, in order
    oauth_log,              \* the logins and callbacks served so far, in order
    probe                   \* an input of is_token_expired and its result

store == <<field_sync_state, connected_organizations, organizations, fields,
           operations_raw, operations_normalized>>
token_state == <<clock, user_tokens, oauth_states, issued, history, oauth_log, probe>>
vars == <<now, field_sync_state, connected_organizations, organizations, fields,
          operations_raw, operations_normalized, reqs, started, faults,
          clock, user_tokens, oauth_states, issued, history, oauth_log, probe>>

Slots == {1, 2}

NoResponse == [status |-> 0, kind |-> "", mode_used |-> "", count |-> 0,
               synced_organizations |-> 0, synced_fields |-> 0]

\* a handler slot: the request's parameters, the handler's locals, its
\* response, and a log of what the run did (calls, saved, dbfail, before)
IdleReq ==
    [kind |-> "idle", pc |-> "idle", farmer_id |-> "", org_id |-> "",
     org_filter |-> None, field_id |-> "", mode |-> "", lookback_years |-> 0,
     start_date |-> None, end_date |-> None, sync_mode |-> "",
     seq |-> 0, orgs |-> <<>>, oi |-> 0, fields |-> <<>>, fi |-> 0,
     raw_ops |-> <<>>, ri |-> 0, normalized_ops |-> <<>>,
     synced_orgs |-> 0, synced_fields |-> 0, synced_ops |-> 0,
     response |-> NoResponse,
     calls |-> <<>>, saved |-> {}, dbfail |-> {}, before |-> <<>>]

\* the tables as init_db creates them, no request in any slot
EngineInit ==
    /\ now = 0
    /\ field_sync_state = [k \in Keys |-> None]
    /\ connected_organizations = {}
    /\ organizations = {}
    /\ fields = [f \in FieldIds |-> None]
    /\ operations_raw = EmptyBag
    /\ operations_normalized = EmptyBag
    /\ reqs = [r \in Slots |-> IdleReq]
    /\ started = 0
    /\ faults = 0

\* no credential stored, no authorization pending
TokenInit ==
    /\ clock = 0
    /\ user_tokens = EmptyBag
    /\ oauth_states = {}
    /\ issued = 0
    /\ history = <<>>
    /\ oauth_log = <<>>

Init == EngineInit /\ TokenInit /\ probe = None

(* ------------------------- app/database.py ---------------------------- *)
Key(farmer_id, org_id, field_id) == <<farmer_id, org_id, field_id>>

\* Database.get_sync_state: the row of the key, or None
GetSyncState(farmer_id, org_id, field_id) ==
    field_sync_state[Key(farmer_id, org_id, field_id)]

\* dict.get on an optional row (None has no columns)
RowGet(row, column) == IF row = None THEN None ELSE row[1][column]

\* the columns save_sync_state writes; last_synced_at is datetime.now()
SyncStateRow(field_name, sync_mode, start_date, end_date, t) ==
    [field_name |-> field_name, last_synced_at |-> Some(t),
     last_sync_mode |-> sync_mode, last_sync_start_date |-> start_date,
     last_sync_end_date |-> end_date]

\* Database.save_sync_state: INSERT OR REPLACE on UNIQUE(farmer_id, org_id, field_id)
SaveSyncState(table, farmer_id, org_id, field_id, row) ==
    [table EXCEPT ![Key(farmer_id, org_id, field_id)] = Some(row)]

\* (a variant that inserts without replacing the key's row)
SaveSyncStateRowsInsert(table, seq, farmer_id, org_id, field_id, row, t) ==
    table (+) SetToBag({[id |-> seq + 1, farmer_id |-> farmer_id, org_id |-> org_id,
                         field_id |-> field_id, created_at |-> t,
                         updated_at |-> t] @@ row})

\* Database.save_sync_state on the table as SQLite keeps it: INSERT OR
\* REPLACE deletes the rows that conflict on UNIQUE(farmer_id, org_id,
\* field_id) and inserts a new row, with the next AUTOINCREMENT id (seq is
\* the largest id given so far), created_at by default and updated_at now.
\* The engine above keeps the same table as key -> row.
SaveSyncStateRows(table, seq, farmer_id, org_id, field_id, row, t) ==
    LET old == {x \in BagToSet(table) :
                   Key(x.farmer_id, x.org_id, x.field_id) = Key(farmer_id, org_id, field_id)}
    IN  (table (-) [x \in old |-> CopiesIn(x, table)])
        (+) SetToBag({[id |-> seq + 1, farmer_id |-> farmer_id, org_id |-> org_id,
                       field_id |-> field_id, created_at |-> t,
                       updated_at |-> t] @@ row})

\* Database.upsert_organization: ON CONFLICT(org_id) DO UPDATE
UpsertOrganization(table, org_id) == table \cup {org_id}

\* Database.upsert_field: ON CONFLICT(field_id) DO UPDATE
UpsertField(table, org_id, field_id) == [table EXCEPT ![field_id] = Some(org_id)]

RawRow(org_id, field_id, operation) ==
    [operation_id |-> operation.id, field_id |-> field_id, org_id |-> org_id,
     raw_json |-> operation]

\* Database.upsert_raw_operation.  operation_id is TEXT PRIMARY KEY of an
\* ordinary rowid table: SQLite admits NULL there and NULLs never conflict,
\* so a record without "id" is inserted as a new row every time.
UpsertRawOperation(table, org_id, field_id, operation) ==
    LET op_id == operation.id
        same == {x \in BagToSet(table) : x.operation_id = op_id}
    IN  IF op_id # None /\ same # {}
        THEN (table (-) SetToBag(same)) (+) SetToBag({RawRow(org_id, field_id, operation)})
        ELSE table (+) SetToBag({RawRow(org_id, field_id, operation)})

RECURSIVE SeqToBag(_)
SeqToBag(rows) ==
    IF rows = <<>> THEN EmptyBag
    ELSE SetToBag({Head(rows)}) (+) SeqToBag(Tail(rows))

\* Database.insert_normalized_operations: plain INSERTs (AUTOINCREMENT id),
\* committed together; field_id and org_id are the call's arguments
NormalizedRow(org_id, field_id, op) ==
    [operation_id |-> op.operation_id, field_id |-> field_id, org_id |-> org_id,
     operation_type |-> op.operation_type, operation_date |-> op.operation_date,
     crop_name |-> op.crop_name, product_name |-> op.product_name,
     product_category |-> op.product_category, area_ha |-> op.area_ha]

\* (a variant that replaces the rows already stored under an operation_id)
InsertNormalizedOperationsReplace(table, org_id, field_id, normalized_ops) ==
    LET ids == {normalized_ops[i].operation_id : i \in DOMAIN normalized_ops}
        old == {x \in BagToSet(table) : x.operation_id \in ids}
    IN  (table (-) [x \in old |-> CopiesIn(x, table)])
        (+) SeqToBag([i \in 1..Len(normalized_ops) |->
                         NormalizedRow(org_id, field_id, normalized_ops[i])])

InsertNormalizedOperations(table, org_id, field_id, normalized_ops) ==
    table (+) SeqToBag([i \in 1..Len(normalized_ops) |->
                            NormalizedRow(org_id, field_id, normalized_ops[i])])

(* ------------------------- app/jdoc_api.py ---------------------------- *)
\* the remote's date filter: an omitted bound does not bound
InWindow(date, start_date, end_date) ==
    /\ start_date = None \/ date >= start_date[1]
    /\ end_date = None \/ date <= end_date[1]

\* JDOCClient.get_field_operations, answered: the field's operations in the window
GetFieldOperations(field_id, start_date, end_date) ==
    SelectSeq(RemoteOps[field_id],
              LAMBDA op : InWindow(op.startDate[2], start_date, end_date))

\* JDOCClient.get_fields, answered
GetFields(org_id) == RemoteFields[org_id]

\* one remote call as the run's log keeps it
Call(what, org_id, field_id, start_date, end_date, outcome) ==
    [what |-> what, org_id |-> org_id, field_id |-> field_id,
     start_date |-> start_date, end_date |-> end_date, outcome |-> outcome]

\* truthiness of a JSON value, as "if x" and "x or y" see it
Truthy(v) ==
    CASE v[1] \in {"null", "absent"} -> FALSE
      [] v[1] = "str" -> v[2] # ""
      [] v[1] = "num" -> v[2] # 0
      [] v[1] = "list" -> v[2] # <<>>
      [] v[1] = "dict" -> DOMAIN v[2] # {}
      [] OTHER -> TRUE

\* Python's "a or b"
Or(a, b) == IF Truthy(a) THEN a ELSE b

\* dict.get
DictGet(d, key) == IF d[1] = "dict" /\ key \in DOMAIN d[2] THEN d[2][key] ELSE JNull

\* (a variant that compares the vendor type without regard to case)
OperationTypeAnyCase(field_op_type) ==
    CASE field_op_type \in {JStr("seeding"), JStr("Seeding")} -> "PLANTING"
      [] field_op_type \in {JStr("harvest"), JStr("HARVEST")} -> "HARVEST"
      [] field_op_type = JStr("tillage") -> "TILLAGE"
      [] field_op_type = JStr("application") -> "FERTILIZER"
      [] OTHER -> "OTHER"

\* normalize_operation, 1: the vendor type mapping
OperationType(field_op_type) ==
    CASE field_op_type = JStr("seeding") -> "PLANTING"
      [] field_op_type = JStr("harvest") -> "HARVEST"
      [] field_op_type = JStr("tillage") -> "TILLAGE"
      [] field_op_type = JStr("application") -> "FERTILIZER"
      [] OTHER -> "OTHER"

\* (a variant in which a string that does not parse is not replaced)
FromIsoFormatOrNowStrict(date_value, t) ==
    IF date_value[1] = "iso" THEN Some(date_value[2]) ELSE None

\* "try: datetime.fromisoformat(...) except Exception: datetime.utcnow()"
FromIsoFormatOrNow(date_value, t) ==
    IF date_value[1] = "iso" THEN Some(date_value[2]) ELSE Some(t)

\* normalize_operation, 2: start if available, else end; utcnow() when the
\* value is missing, is not a string or does not parse.  None: an exception
\* leaves the function.
DateParsed(raw_operation, t) ==
    LET date_value == Or(raw_operation.startDate, raw_operation.endDate)
    IN  IF Truthy(date_value) /\ date_value[1] \in {"str", "iso"}
        THEN FromIsoFormatOrNow(date_value, t)
        ELSE Some(t)

\* normalize_operation, 3: the first element of "varieties", when it is a dict
FirstVariety(raw_operation) ==
    LET varieties == Or(raw_operation.varieties, JList(<<>>))
    IN  IF Truthy(varieties) /\ varieties[1] = "list" /\ varieties[2][1][1] \in {"dict", "obj"}
        THEN varieties[2][1] ELSE JObj

\* product_name is its "name"; its "productType" is read into
\* product_category (line 223), which is passed to nothing: the
\* NormalizedOperation built at lines 251-266 has no such field
ProductName(raw_operation) == DictGet(FirstVariety(raw_operation), "name")

\* normalize_operation, 4: area and area_unit
AreaOf(raw_operation) ==
    LET area_obj == Or(raw_operation.area, JDict(<<>>))
    IN  IF raw_operation.area # JAbsent /\ area_obj[1] \in {"dict", "obj"}
        THEN [area |-> Or(DictGet(area_obj, "valueAsDouble"), DictGet(area_obj, "value")),
              area_unit |-> Or(DictGet(area_obj, "unit"), JStr("ha"))]
        ELSE [area |-> JNull, area_unit |-> JNull]

\* a validated Optional[...] field as the model keeps it
Optional(v) == IF v[1] = "null" THEN None ELSE Some(v[2])

\* NormalizedOperation(...) validates its fields: crop_name, product_name and
\* area_unit are Optional[str], area is Optional[float]
NormalizeRaises(raw_operation, t) ==
    \/ DateParsed(raw_operation, t) = None
    \/ raw_operation.cropName[1] \notin {"str", "null"}
    \/ ProductName(raw_operation)[1] \notin {"str", "null"}
    \/ AreaOf(raw_operation).area[1] \notin {"num", "null"}
    \/ AreaOf(raw_operation).area_unit[1] \notin {"str", "null"}

NormalizeOperation(raw_operation, field_id, field_name, org_id, org_name, t) ==
    [field_id |-> field_id, field_name |-> field_name, org_id |-> org_id,
     org_name |-> org_name,
     operation_type |-> OperationType(raw_operation.fieldOperationType),
     date |-> DateParsed(raw_operation, t)[1],
     crop_name |-> Optional(raw_operation.cropName),
     product_name |-> Optional(ProductName(raw_operation)),
     area |-> Optional(AreaOf(raw_operation).area),
     area_unit |-> Optional(AreaOf(raw_operation).area_unit),
     raw_jdoc_data |-> raw_operation]

\* (a variant of the loop that gives up at the first record that raises)
RECURSIVE NormalizeAllAborts(_, _, _, _, _, _)
NormalizeAllAborts(raw_operations, field_id, field_name, org_id, org_name, t) ==
    IF raw_operations = <<>> THEN <<>>
    ELSE IF NormalizeRaises(Head(raw_operations), t) THEN <<>>
    ELSE <<NormalizeOperation(Head(raw_operations), field_id,
                              field_name, org_id, org_name, t)>>
         \o NormalizeAllAborts(Tail(raw_operations), field_id, field_name,
                               org_id, org_name, t)

\* the per-record loop: a record whose normalization raises is skipped
RECURSIVE NormalizeAll(_, _, _, _, _, _)
NormalizeAll(raw_operations, field_id, field_name, org_id, org_name, t) ==
    IF raw_operations = <<>> THEN <<>>
    ELSE LET rest == NormalizeAll(Tail(raw_operations), field_id, field_name,
                                  org_id, org_name, t)
         IN  IF NormalizeRaises(Head(raw_operations), t) THEN rest
             ELSE <<NormalizeOperation(Head(raw_operations), field_id,
                                       field_name, org_id, org_name, t)>> \o rest

(* --------------------------- app/main.py ------------------------------ *)
Response(status, kind) == [NoResponse EXCEPT !.status = status, !.kind = kind]

\* a fresh request in a slot, numbered in order of arrival; the run's log
\* starts empty
NewReq(kind) ==
    [IdleReq EXCEPT !.kind = kind, !.seq = started + 1, !.before = field_sync_state]

CanStart(r) == reqs[r].pc \in {"idle", "done"} /\ started < MaxRequests

\* a reading of the clock: any time from the last reading on
Clock == now..MaxNow

\* a failure may be injected while the budget lasts
MayFail(outcome) == outcome = "ok" \/ faults < MaxFaults
Charge(outcomes) == faults + Cardinality({i \in DOMAIN outcomes : outcomes[i] # "ok"})

\* the log of remote calls of slot r, extended
Logged(req, call) == [req EXCEPT !.calls = Append(@, call)]

\* (a variant that never takes the cold-start branch)
ColdStartNever(sync_state) == FALSE

\* get_field_operations_with_sync: "if not sync_state or not sync_state.get('last_synced_at')"
ColdStart(sync_state) == sync_state = None \/ RowGet(sync_state, "last_synced_at") = None

\* (datetime.now() - timedelta(days=365*lookback_years))
FullHistoryStart(t, lookback_years) == Some(t - DaysPerYear * lookback_years)

\* "if end_date is None: end_date = datetime.now()..."
EndOrNow(end_date, t) == IF end_date = None THEN Some(t) ELSE end_date

\* (a variant that resumes from the start of the previous window)
SyncWindowStartFromStart(mode, sync_state, t, lookback_years) ==
    IF mode = "incremental" THEN RowGet(sync_state, "last_sync_start_date")
    ELSE FullHistoryStart(t, lookback_years)

\* get_field_operations_with_sync: the start of the window of a mode
SyncWindowStart(mode, sync_state, t, lookback_years) ==
    IF mode = "incremental" THEN RowGet(sync_state, "last_sync_end_date")
    ELSE FullHistoryStart(t, lookback_years)

SyncModeUsed(mode) == IF mode = "incremental" THEN "incremental" ELSE "full_history"

\* GET /api/fields/{field_id}/operations/sync, up to the first remote call
SyncStart(r) ==
    /\ CanStart(r)
    /\ \E farmer_id \in Farmers, field_id \in FieldIds, mode \in Modes,
          lookback_years \in Lookbacks, end_date \in Dates, t \in Clock :
          LET org_id == OrgOf[field_id]
              sync_state == GetSyncState(farmer_id, org_id, field_id)
              req == [NewReq("sync") EXCEPT
                         !.farmer_id = farmer_id, !.org_id = org_id,
                         !.field_id = field_id, !.mode = mode,
                         !.lookback_years = lookback_years]
          IN /\ IF mode = "incremental" /\ ColdStart(sync_state)
              THEN reqs' = [reqs EXCEPT ![r] =
                       [req EXCEPT !.pc = "done",
                                   !.response = [Response(202, "fallback") EXCEPT
                                                    !.mode_used = "full_history"]]]
              ELSE reqs' = [reqs EXCEPT ![r] =
                       [req EXCEPT !.pc = "sync_fetch",
                                   !.start_date = SyncWindowStart(mode, sync_state, t,
                                                                  lookback_years),
                                   !.end_date = EndOrNow(end_date, t),
                                   !.sync_mode = SyncModeUsed(mode)]]
             /\ now' = t
    /\ started' = started + 1
    /\ UNCHANGED <<store, faults>>
    /\ UNCHANGED token_state

\* raw_operations = await jdoc_client.get_field_operations(...); a failure
\* leaves through the outer except as HTTP 500
SyncFetch(r) ==
    /\ reqs[r].pc = "sync_fetch"
    /\ \E outcome \in Outcomes :
          /\ MayFail(outcome)
          /\ LET req == Logged(reqs[r], Call("ops", reqs[r].org_id, reqs[r].field_id,
                                        reqs[r].start_date, reqs[r].end_date, outcome))
             IN  reqs' = [reqs EXCEPT ![r] =
                    IF outcome = "ok"
                    THEN [req EXCEPT !.pc = "sync_fields",
                              !.raw_ops = GetFieldOperations(req.field_id,
                                              req.start_date, req.end_date)]
                    ELSE [req EXCEPT !.pc = "done",
                                     !.response = Response(500, "error")]]
          /\ faults' = Charge(<<outcome>>)
    /\ UNCHANGED <<now, store, started>>
    /\ UNCHANGED token_state

\* the field name lookup (a failure is passed over), the normalization loop,
\* save_sync_state (a failure is printed) and the response
SyncFinish(r) ==
    /\ reqs[r].pc = "sync_fields"
    /\ \E outcome \in Outcomes, save \in {"ok", "error"} :
          /\ Charge(<<outcome, save>>) <= MaxFaults
          /\ LET req0 == Logged(reqs[r], Call("fields", reqs[r].org_id, "", None, None,
                                         outcome))
                 field_name == IF outcome = "ok" THEN FieldName[req0.field_id]
                               ELSE req0.field_id
                 normalized_ops == NormalizeAll(req0.raw_ops, req0.field_id, field_name,
                                                req0.org_id, req0.org_id, now)
             IN  /\ field_sync_state' =
                       IF save = "ok"
                       THEN SaveSyncState(field_sync_state, req0.farmer_id, req0.org_id,
                                req0.field_id,
                                SyncStateRow(field_name, req0.sync_mode,
                                             req0.start_date, req0.end_date, now))
                       ELSE field_sync_state
                 /\ reqs' = [reqs EXCEPT ![r] =
                       [req0 EXCEPT !.pc = "done",
                            !.normalized_ops = normalized_ops,
                            !.saved = IF save = "ok"
                                      THEN @ \cup {Key(req0.farmer_id, req0.org_id,
                                                       req0.field_id)}
                                      ELSE @,
                            !.dbfail = IF save = "ok" THEN @
                                       ELSE @ \cup {<<"save", req0.field_id>>},
                            !.response = [Response(200, "sync") EXCEPT
                                             !.count = Len(normalized_ops),
                                             !.mode_used = req0.sync_mode]]]
          /\ faults' = Charge(<<outcome, save>>)
    /\ UNCHANGED <<now, connected_organizations, organizations, fields,
                   operations_raw, operations_normalized, started>>
    /\ UNCHANGED token_state

(* ----- the loops over organizations and fields (sweep and snapshot) ----- *)
\* "continue" of the loop over organizations
NextOrg(req, orgpc) ==
    [req EXCEPT !.oi = @ + 1, !.fields = <<>>, !.fi = 0, !.pc = orgpc]

\* "continue" of the loop over fields: the next field, or the next organization
NextField(req, orgpc, fieldpc) ==
    IF req.fi < Len(req.fields)
    THEN [req EXCEPT !.fi = @ + 1, !.raw_ops = <<>>, !.ri = 0,
                     !.normalized_ops = <<>>, !.pc = fieldpc]
    ELSE NextOrg([req EXCEPT !.raw_ops = <<>>, !.ri = 0, !.normalized_ops = <<>>],
                 orgpc)

\* "for field in fields": into the loop body, or past an empty list
EnterFields(req, field_list, orgpc, fieldpc) ==
    IF field_list = <<>> THEN NextOrg(req, orgpc)
    ELSE [req EXCEPT !.fields = field_list, !.fi = 1, !.pc = fieldpc]

\* JDOCClient.get_organizations, answered: db.save_organization for each
SaveOrganizations(table, user_id) ==
    table \cup {<<user_id, RemoteOrgs[i]>> : i \in DOMAIN RemoteOrgs}

(* ----------------------- get_farmer_snapshot -------------------------- *)
\* "if sync_state and sync_state.get('last_synced_at')" of the snapshot
SnapshotHasState(sync_state) ==
    sync_state # None /\ RowGet(sync_state, "last_synced_at") # None

\* the start of a field's window in the snapshot
SnapshotWindowStart(mode, sync_state, t, lookback_years) ==
    IF mode = "incremental" /\ SnapshotHasState(sync_state)
    THEN RowGet(sync_state, "last_sync_end_date")
    ELSE FullHistoryStart(t, lookback_years)

\* (a variant that saves the state whether or not the fetch returned)
SnapshotSavedAlways(outcome, save) == save = "ok"

\* field_sync_state after the try block around one field's fetch: the state
\* is saved after a fetch that returned, and a failing save is passed over
SnapshotSaved(outcome, save) == outcome = "ok" /\ save = "ok"

\* "except Exception: print(...); continue" around an organization's fields
SnapshotFieldsFailed(req) == NextOrg(req, "snap_org")

\* GET /api/farmers/{farmer_id}/snapshot, through get_organizations
SnapStart(r) ==
    /\ CanStart(r)
    /\ \E farmer_id \in Farmers, mode \in Modes, lookback_years \in Lookbacks,
          outcome \in Outcomes :
          /\ MayFail(outcome)
          /\ LET req == Logged([NewReq("snapshot") EXCEPT
                                   !.farmer_id = farmer_id, !.mode = mode,
                                   !.lookback_years = lookback_years],
                               Call("orgs", "", "", None, None, outcome))
             IN  /\ reqs' = [reqs EXCEPT ![r] =
                       IF outcome # "ok"
                       THEN [req EXCEPT !.pc = "done", !.response = Response(500, "error")]
                       ELSE IF RemoteOrgs = <<>>
                       THEN [req EXCEPT !.pc = "done", !.response = Response(404, "error")]
                       ELSE [req EXCEPT !.orgs = RemoteOrgs, !.oi = 1, !.pc = "snap_org"]]
                 /\ connected_organizations' =
                       IF outcome = "ok"
                       THEN SaveOrganizations(connected_organizations, farmer_id)
                       ELSE connected_organizations
          /\ faults' = Charge(<<outcome>>)
    /\ started' = started + 1
    /\ UNCHANGED <<now, field_sync_state, organizations, fields, operations_raw,
                   operations_normalized>>
    /\ UNCHANGED token_state

\* one organization: its fields are fetched
SnapOrg(r) ==
    /\ reqs[r].pc = "snap_org"
    /\ reqs[r].oi <= Len(reqs[r].orgs)
    /\ \E outcome \in Outcomes :
          /\ MayFail(outcome)
          /\ LET org_id == reqs[r].orgs[reqs[r].oi]
                 req == Logged(reqs[r], Call("fields", org_id, "", None, None, outcome))
             IN  reqs' = [reqs EXCEPT ![r] =
                    IF outcome = "ok"
                    THEN EnterFields(req, GetFields(org_id), "snap_org", "snap_field")
                    ELSE SnapshotFieldsFailed(req)]
          /\ faults' = Charge(<<outcome>>)
    /\ UNCHANGED <<now, store, started>>
    /\ UNCHANGED token_state

\* one field: the window, the fetch, the normalization, the sync state
SnapField(r) ==
    /\ reqs[r].pc = "snap_field"
    /\ \E outcome \in Outcomes, save \in {"ok", "error"}, t \in Clock :
          /\ outcome # "ok" => save = "ok"
          /\ Charge(<<outcome, save>>) <= MaxFaults
          /\ LET req0 == reqs[r]
                 org_id == req0.orgs[req0.oi]
                 field_id == req0.fields[req0.fi]
                 sync_state == GetSyncState(req0.farmer_id, org_id, field_id)
                 start_date == SnapshotWindowStart(req0.mode, sync_state, t,
                                                   req0.lookback_years)
                 end_date == Some(t)
                 req == Logged(req0, Call("ops", org_id, field_id, start_date,
                                          end_date, outcome))
                 normalized_ops ==
                     IF outcome = "ok"
                     THEN NormalizeAll(GetFieldOperations(field_id, start_date, end_date),
                                       field_id, FieldName[field_id], org_id,
                                       OrgName[org_id], t)
                     ELSE <<>>
                 saved == SnapshotSaved(outcome, save)
             IN  /\ field_sync_state' =
                       IF saved
                       THEN SaveSyncState(field_sync_state, req0.farmer_id, org_id,
                                field_id,
                                SyncStateRow(FieldName[field_id], req0.mode,
                                             start_date, end_date, t))
                       ELSE field_sync_state
                 /\ reqs' = [reqs EXCEPT ![r] =
                       NextField([req EXCEPT
                           !.synced_fields = @ + 1,
                           !.synced_ops = @ + Len(normalized_ops),
                           !.saved = IF saved
                                     THEN @ \cup {Key(req0.farmer_id, org_id, field_id)}
                                     ELSE @,
                           !.dbfail = IF outcome = "ok" /\ save # "ok"
                                      THEN @ \cup {<<"save", field_id>>} ELSE @],
                           "snap_org", "snap_field")]
                 /\ now' = t
          /\ faults' = Charge(<<outcome, save>>)
    /\ UNCHANGED <<connected_organizations, organizations, fields, operations_raw,
                   operations_normalized, started>>
    /\ UNCHANGED token_state

\* the hierarchy is built and returned with its totals
SnapReturn(r) ==
    /\ reqs[r].pc = "snap_org"
    /\ reqs[r].oi > Len(reqs[r].orgs)
    /\ reqs' = [reqs EXCEPT ![r] =
          [@ EXCEPT !.pc = "done",
                    !.response = [Response(200, "snapshot") EXCEPT
                                     !.synced_fields = reqs[r].synced_fields,
                                     !.count = reqs[r].synced_ops]]]
    /\ UNCHANGED <<now, store, started, faults>>
    /\ UNCHANGED token_state

(* ------------- the rows written to operations_normalized -------------- *)
\* f"{field_id}-{n.get('date')}"
SynthId(field_id, date) == <<field_id, date>>

\* op_id = raw.get("id") or f"{fid}-{n.get('date')}"
DbOperationId(n, field_id) ==
    IF n.raw_jdoc_data.id # None THEN n.raw_jdoc_data.id
    ELSE SynthId(field_id, n.date)

\* the adaptation of one normalized dict to the table's columns
DbRow(n, field_id) ==
    [operation_id |-> DbOperationId(n, field_id), field_id |-> n.field_id,
     org_id |-> n.org_id, operation_type |-> n.operation_type,
     operation_date |-> n.date, crop_name |-> n.crop_name,
     product_name |-> n.product_name, product_category |-> None,
     area_ha |-> n.area]

DbRows(normalized_ops, field_id) ==
    [i \in 1..Len(normalized_ops) |-> DbRow(normalized_ops[i], field_id)]

(* -------------------------- sync_farmer_data -------------------------- *)
\* "orgs = [o for o in orgs if o.get('id') == org_id]" when org_id is given
FilterOrgs(orgs, org_filter) ==
    IF org_filter = None THEN orgs
    ELSE SelectSeq(orgs, LAMBDA o : o = org_filter[1])

\* (a variant that leaves the loop over organizations on a failure)
SweepFieldsFailedBreak(req) ==
    [req EXCEPT !.oi = Len(req.orgs) + 1, !.fields = <<>>, !.fi = 0, !.pc = "sweep_org"]

\* "except Exception: logger.error(...); continue" around get_fields
SweepFieldsFailed(req) == NextOrg(req, "sweep_org")

\* (a variant that leaves the loop over fields on a failure)
SweepFetchFailedBreak(req) == NextOrg(req, "sweep_org")

\* (a variant that tries the same field again after a failure)
SweepFetchFailedRetry(req) == [req EXCEPT !.pc = "sweep_field"]

\* "except Exception: logger.error(...); continue" around get_field_operations
SweepFetchFailed(req) == NextField(req, "sweep_org", "sweep_field")

\* POST /admin/sync/farmer, through get_organizations (outside any try)
SweepStart(r) ==
    /\ CanStart(r)
    /\ \E farmer_id \in Farmers, org_filter \in {None} \cup {Some(o) : o \in OrgIds},
          start_date \in Dates, end_date \in Dates, outcome \in Outcomes :
          /\ MayFail(outcome)
          /\ LET req == Logged([NewReq("sweep") EXCEPT
                                   !.farmer_id = farmer_id, !.org_filter = org_filter,
                                   !.start_date = start_date, !.end_date = end_date],
                               Call("orgs", "", "", None, None, outcome))
             IN  /\ reqs' = [reqs EXCEPT ![r] =
                       IF outcome # "ok"
                       THEN [req EXCEPT !.pc = "done",
                                        !.response = Response(500, "unhandled")]
                       ELSE [req EXCEPT !.orgs = FilterOrgs(RemoteOrgs, org_filter),
                                        !.oi = 1, !.pc = "sweep_org"]]
                 /\ connected_organizations' =
                       IF outcome = "ok"
                       THEN SaveOrganizations(connected_organizations, farmer_id)
                       ELSE connected_organizations
          /\ faults' = Charge(<<outcome>>)
    /\ started' = started + 1
    /\ UNCHANGED <<now, field_sync_state, organizations, fields, operations_raw,
                   operations_normalized>>
    /\ UNCHANGED token_state

\* one organization: counted, upserted, its fields fetched
SweepOrg(r) ==
    /\ reqs[r].pc = "sweep_org"
    /\ reqs[r].oi <= Len(reqs[r].orgs)
    /\ \E upsert \in {"ok", "error"}, outcome \in Outcomes :
          /\ Charge(<<upsert, outcome>>) <= MaxFaults
          /\ LET oid == reqs[r].orgs[reqs[r].oi]
                 req == Logged([reqs[r] EXCEPT
                                   !.synced_orgs = @ + 1,
                                   !.dbfail = IF upsert = "ok" THEN @
                                              ELSE @ \cup {<<"org", oid>>}],
                               Call("fields", oid, "", None, None, outcome))
             IN  /\ organizations' = IF upsert = "ok"
                                     THEN UpsertOrganization(organizations, oid)
                                     ELSE organizations
                 /\ reqs' = [reqs EXCEPT ![r] =
                       IF outcome = "ok"
                       THEN EnterFields(req, GetFields(oid), "sweep_org", "sweep_field")
                       ELSE SweepFieldsFailed(req)]
          /\ faults' = Charge(<<upsert, outcome>>)
    /\ UNCHANGED <<now, field_sync_state, connected_organizations, fields,
                   operations_raw, operations_normalized, started>>
    /\ UNCHANGED token_state

\* one field: upserted (counted when that succeeds), its operations fetched
SweepField(r) ==
    /\ reqs[r].pc = "sweep_field"
    /\ \E upsert \in {"ok", "error"}, outcome \in Outcomes :
          /\ Charge(<<upsert, outcome>>) <= MaxFaults
          /\ LET req0 == reqs[r]
                 oid == req0.orgs[req0.oi]
                 fid == req0.fields[req0.fi]
                 req == Logged([req0 EXCEPT
                                   !.synced_fields = IF upsert = "ok" THEN @ + 1 ELSE @,
                                   !.dbfail = IF upsert = "ok" THEN @
                                              ELSE @ \cup {<<"field", fid>>}],
                               Call("ops", oid, fid, req0.start_date, req0.end_date,
                                    outcome))
             IN  /\ fields' = IF upsert = "ok" THEN UpsertField(fields, oid, fid)
                              ELSE fields
                 /\ reqs' = [reqs EXCEPT ![r] =
                       IF outcome = "ok"
                       THEN [req EXCEPT !.raw_ops = GetFieldOperations(fid,
                                            req0.start_date, req0.end_date),
                                        !.ri = 1, !.normalized_ops = <<>>,
                                        !.pc = "sweep_op"]
                       ELSE SweepFetchFailed(req)]
          /\ faults' = Charge(<<upsert, outcome>>)
    /\ UNCHANGED <<now, field_sync_state, connected_organizations, organizations,
                   operations_raw, operations_normalized, started>>
    /\ UNCHANGED token_state

\* one raw operation: stored, then normalized; either failing skips the record
SweepOp(r) ==
    /\ reqs[r].pc = "sweep_op"
    /\ reqs[r].ri <= Len(reqs[r].raw_ops)
    /\ \E upsert \in {"ok", "error"} :
          /\ MayFail(upsert)
          /\ LET req == reqs[r]
                 oid == req.orgs[req.oi]
                 fid == req.fields[req.fi]
                 raw_op == req.raw_ops[req.ri]
             IN  /\ operations_raw' =
                       IF upsert = "ok"
                       THEN UpsertRawOperation(operations_raw, oid, fid, raw_op)
                       ELSE operations_raw
                 /\ reqs' = [reqs EXCEPT ![r] =
                       [req EXCEPT
                           !.ri = @ + 1,
                           !.dbfail = IF upsert = "ok" THEN @
                                      ELSE @ \cup {<<"raw", fid>>},
                           !.normalized_ops =
                               IF upsert = "ok" /\ ~NormalizeRaises(raw_op, now)
                               THEN Append(@, NormalizeOperation(raw_op, fid,
                                              FieldName[fid], oid, OrgName[oid], now))
                               ELSE @]]
          /\ faults' = Charge(<<upsert>>)
    /\ UNCHANGED <<now, field_sync_state, connected_organizations, organizations,
                   fields, operations_normalized, started>>
    /\ UNCHANGED token_state

\* after the records of a field: the normalized rows are inserted together
SweepInsert(r) ==
    /\ reqs[r].pc = "sweep_op"
    /\ reqs[r].ri > Len(reqs[r].raw_ops)
    /\ \E insert \in {"ok", "error"} :
          /\ MayFail(insert)
          /\ reqs[r].normalized_ops = <<>> => insert = "ok"
          /\ LET req == reqs[r]
                 oid == req.orgs[req.oi]
                 fid == req.fields[req.fi]
                 db_rows == DbRows(req.normalized_ops, fid)
             IN  /\ operations_normalized' =
                       IF insert = "ok"
                       THEN InsertNormalizedOperations(operations_normalized, oid, fid,
                                                       db_rows)
                       ELSE operations_normalized
                 /\ reqs' = [reqs EXCEPT ![r] =
                       NextField([req EXCEPT
                           !.synced_ops = IF insert = "ok" THEN @ + Len(db_rows) ELSE @,
                           !.dbfail = IF insert = "ok" THEN @
                                      ELSE @ \cup {<<"insert", fid>>}],
                           "sweep_org", "sweep_field")]
          /\ faults' = Charge(<<insert>>)
    /\ UNCHANGED <<now, field_sync_state, connected_organizations, organizations,
                   fields, operations_raw, started>>
    /\ UNCHANGED token_state

\* the aggregate result
SweepReturn(r) ==
    /\ reqs[r].pc = "sweep_org"
    /\ reqs[r].oi > Len(reqs[r].orgs)
    /\ reqs' = [reqs EXCEPT ![r] =
          [@ EXCEPT !.pc = "done",
                    !.response = [Response(200, "success") EXCEPT
                                     !.synced_organizations = reqs[r].synced_orgs,
                                     !.synced_fields = reqs[r].synced_fields,
                                     !.count = reqs[r].synced_ops]]]
    /\ UNCHANGED <<now, store, started, faults>>
    /\ UNCHANGED token_state

(* ------------------- get_normalized_field_operations ------------------ *)
\* GET /api/fields/{field_id}/operations/normalized, through the fetch
NormStart(r) ==
    /\ CanStart(r)
    /\ \E farmer_id \in Farmers, field_id \in FieldIds, start_date \in Dates,
          end_date \in Dates, outcome \in Outcomes :
          /\ MayFail(outcome)
          /\ LET org_id == OrgOf[field_id]
                 req == Logged([NewReq("normalized") EXCEPT
                                   !.farmer_id = farmer_id, !.org_id = org_id,
                                   !.field_id = field_id, !.start_date = start_date,
                                   !.end_date = end_date],
                               Call("ops", org_id, field_id, start_date, end_date,
                                    outcome))
             IN  reqs' = [reqs EXCEPT ![r] =
                    IF outcome = "ok"
                    THEN [req EXCEPT !.raw_ops = GetFieldOperations(field_id,
                                         start_date, end_date),
                                     !.ri = 1, !.pc = "norm_raw"]
                    ELSE [req EXCEPT !.pc = "done", !.response = Response(500, "error")]]
          /\ faults' = Charge(<<outcome>>)
    /\ started' = started + 1
    /\ UNCHANGED <<now, store>>
    /\ UNCHANGED token_state

\* one raw operation stored; a failing upsert is logged and passed over
NormRaw(r) ==
    /\ reqs[r].pc = "norm_raw"
    /\ reqs[r].ri <= Len(reqs[r].raw_ops)
    /\ \E upsert \in {"ok", "error"} :
          /\ MayFail(upsert)
          /\ LET req == reqs[r]
             IN  /\ operations_raw' =
                       IF upsert = "ok"
                       THEN UpsertRawOperation(operations_raw, req.org_id, req.field_id,
                                               req.raw_ops[req.ri])
                       ELSE operations_raw
                 /\ reqs' = [reqs EXCEPT ![r] =
                       [req EXCEPT !.ri = @ + 1,
                                   !.dbfail = IF upsert = "ok" THEN @
                                              ELSE @ \cup {<<"raw", req.field_id>>}]]
          /\ faults' = Charge(<<upsert>>)
    /\ UNCHANGED <<now, field_sync_state, connected_organizations, organizations,
                   fields, operations_normalized, started>>
    /\ UNCHANGED token_state

\* the field name lookup, the normalization loop, the insert and the response
NormFinish(r) ==
    /\ reqs[r].pc = "norm_raw"
    /\ reqs[r].ri > Len(reqs[r].raw_ops)
    /\ \E outcome \in Outcomes, insert \in {"ok", "error"} :
          /\ Charge(<<outcome, insert>>) <= MaxFaults
          /\ LET req == Logged(reqs[r], Call("fields", reqs[r].org_id, "", None, None,
                                        outcome))
                 field_name == IF outcome = "ok" THEN FieldName[req.field_id]
                               ELSE req.field_id
                 normalized_ops == NormalizeAll(req.raw_ops, req.field_id, field_name,
                                                req.org_id, req.org_id, now)
                 db_rows == DbRows(normalized_ops, req.field_id)
             IN  /\ db_rows = <<>> => insert = "ok"
                 /\ operations_normalized' =
                       IF insert = "ok"
                       THEN InsertNormalizedOperations(operations_normalized, req.org_id,
                                                       req.field_id, db_rows)
                       ELSE operations_normalized
                 /\ reqs' = [reqs EXCEPT ![r] =
                       [req EXCEPT !.pc = "done",
                                   !.normalized_ops = normalized_ops,
                                   !.dbfail = IF insert = "ok" THEN @
                                              ELSE @ \cup {<<"insert", req.field_id>>},
                                   !.response = [Response(200, "normalized") EXCEPT
                                                    !.count = Len(normalized_ops)]]]
          /\ faults' = Charge(<<outcome, insert>>)
    /\ UNCHANGED <<now, field_sync_state, connected_organizations, organizations,
                   fields, operations_raw, started>>
    /\ UNCHANGED token_state

Next ==
    \/ \E r \in {1} : SyncStart(r)
    \/ \E r \in {1} : SyncFetch(r)
    \/ \E r \in {1} : SyncFinish(r)
    \/ \E r \in {1} : SnapStart(r)
    \/ \E r \in {1} : SnapOrg(r)
    \/ \E r \in {1} : SnapField(r)
    \/ \E r \in {1} : SnapReturn(r)
    \/ \E r \in {1} : SweepStart(r)
    \/ \E r \in {1} : SweepOrg(r)
    \/ \E r \in {1} : SweepField(r)
    \/ \E r \in {1} : SweepOp(r)
    \/ \E r \in {1} : SweepInsert(r)
    \/ \E r \in {1} : SweepReturn(r)
    \/ \E r \in {1} : NormStart(r)
    \/ \E r \in {1} : NormRaw(r)
    \/ \E r \in {1} : NormFinish(r)

Spec == Init /\ [][Next]_vars

\* two requests in flight: the event loop switches between the single-field
\* syncs at their awaits
NextConcurrent ==
    \/ \E r \in Slots : SyncStart(r)
    \/ \E r \in Slots : SyncFetch(r)
    \/ \E r \in Slots : SyncFinish(r)

SpecConcurrent == Init /\ [][NextConcurrent]_vars

(* ====================== app/auth.py: the tokens ======================= *)
\* timedelta(minutes=5), in seconds
ExpiryMargin == 300
\* token_data.get('expires_in', 43200)
DefaultExpiresIn == 43200

\* the token manager's clock runs from 0 to MaxClock (seconds)
MaxClock == 2
\* number of token-manager operations (code exchanges, token lookups) in
\* one behaviour
MaxAuthOps == 4
\* the largest expires_at handed to is_token_expired directly
MaxExpiresAt == 303

\* "farmer_id or 'anonymous'" of login
Users == {"farmer1", "anonymous"}
\* secrets.token_urlsafe(32): the values a state may take
States == {1}
\* the remote hierarchy calls of JDOCClient
Endpoints == {"organizations", "fields", "fieldOperations"}
\* expires_in of a token response: omitted, or a lifetime around the margin
ExpiresIns == {None, Some(ExpiryMargin), Some(ExpiryMargin + 1)}

\* a non-200 answer of the token endpoint
FailedResponse ==
    [status |-> 400, access_token |-> 0, refresh_token |-> None, expires_in |-> None]

\* what the token endpoint may answer to its n-th grant: a failure, or the
\* access token n, with or without a refresh token
TokenResponses(n) ==
    {FailedResponse} \cup
    {[status |-> 200, access_token |-> n, refresh_token |-> rt, expires_in |-> e] :
        rt \in {None, Some(n)}, e \in ExpiresIns}

\* one POST to the token endpoint, as the logs below keep it
TokenPost(grant, refresh_token, response) ==
    [grant |-> grant, refresh_token |-> refresh_token, response |-> response]

\* datetime.now() + timedelta(seconds=token_data.get('expires_in', 43200))
ExpiresAt(expires_in, t) ==
    t + (IF expires_in = None THEN DefaultExpiresIn ELSE expires_in[1])

\* the token set of a 200 answer, with expires_at added
TokenData(response, t) ==
    [access_token |-> response.access_token,
     refresh_token |-> response.refresh_token,
     expires_at |-> Some(ExpiresAt(response.expires_in, t))]

(* ------------------- app/database.py: user_tokens --------------------- *)
TokenRow(user_id, token_data, t) ==
    [user_id |-> user_id, access_token |-> token_data.access_token,
     refresh_token |-> token_data.refresh_token,
     expires_at |-> token_data.expires_at, updated_at |-> t]

RowsOf(table, user_id) == {x \in BagToSet(table) : x.user_id = user_id}

\* (a variant that keeps the row a user already has: INSERT OR IGNORE)
SaveTokenKeepsOld(table, user_id, token_data, t) ==
    IF RowsOf(table, user_id) # {} THEN table
    ELSE table (+) SetToBag({TokenRow(user_id, token_data, t)})

\* (a variant that inserts without replacing the user's row)
SaveTokenInsert(table, user_id, token_data, t) ==
    table (+) SetToBag({TokenRow(user_id, token_data, t)})

\* Database.save_token: INSERT OR REPLACE on user_id UNIQUE
SaveToken(table, user_id, token_data, t) ==
    LET old == [x \in RowsOf(table, user_id) |-> CopiesIn(x, table)]
    IN  (table (-) old) (+) SetToBag({TokenRow(user_id, token_data, t)})

\* Database.get_token: fetchone() of the user's rows, or None
GetToken(table, user_id) ==
    IF RowsOf(table, user_id) = {} THEN None
    ELSE Some(CHOOSE x \in RowsOf(table, user_id) : TRUE)

(* --------------------- app/auth.py: get_valid_token ------------------- *)
\* (a variant that counts every token expired)
IsTokenExpiredAlways(token_data, t) == TRUE

\* (a variant that counts a token expired only after the margin's edge)
IsTokenExpiredStrict(token_data, t) ==
    token_data.expires_at = None \/ t > token_data.expires_at[1] - ExpiryMargin

\* JohnDeereAuth.is_token_expired
IsTokenExpired(token_data, t) ==
    token_data.expires_at = None \/ t >= token_data.expires_at[1] - ExpiryMargin

\* (a variant that refreshes whatever the stored refresh token is)
HasRefreshTokenAlways(token_data) == TRUE

\* "if token_data.get('refresh_token')"
HasRefreshToken(token_data) == token_data.refresh_token # None

\* (a variant that returns the new token without storing it)
RefreshSucceededUnsaved(table, user_id, new_token_data, t) ==
    [table |-> table, token |-> Some(new_token_data.access_token)]

\* the try branch: db.save_token(user_id, new_token_data), then the return
RefreshSucceeded(table, user_id, new_token_data, t) ==
    [table |-> SaveToken(table, user_id, new_token_data, t),
     token |-> Some(new_token_data.access_token)]

\* (a variant that drops the credential when the refresh fails)
RefreshFailedDrops(table, user_id) ==
    [table |-> table (-) [x \in RowsOf(table, user_id) |-> CopiesIn(x, table)],
     token |-> None]

\* the except branch: the failure is printed and None returned
RefreshFailed(table, user_id) == [table |-> table, token |-> None]

\* JohnDeereAuth.get_valid_token at time t, the token endpoint answering
\* `response` if asked: the table afterwards, the token returned and the
\* POSTs made
GetValidToken(table, user_id, t, response) ==
    LET token_data == GetToken(table, user_id)
    IN  IF token_data = None
        THEN [table |-> table, token |-> None, posts |-> <<>>]
        ELSE IF IsTokenExpired(token_data[1], t)
        THEN IF HasRefreshToken(token_data[1])
             THEN LET got == IF response.status = 200
                             THEN RefreshSucceeded(table, user_id,
                                                   TokenData(response, t), t)
                             ELSE RefreshFailed(table, user_id)
                  IN  [table |-> got.table, token |-> got.token,
                       posts |-> <<TokenPost("refresh_token",
                                             token_data[1].refresh_token, response)>>]
             ELSE [table |-> table, token |-> None, posts |-> <<>>]
        ELSE [table |-> table, token |-> Some(token_data[1].access_token),
              posts |-> <<>>]

(* ------------------- app/jdoc_api.py: _make_request ------------------- *)
\* (a variant that sends the request whatever the token)
HasAccessTokenAlways(access_token) == TRUE

\* "if not access_token: raise Exception('No valid access token available')"
HasAccessToken(access_token) == access_token # None

\* JDOCClient._make_request, lines 43-50: what the response of the remote
\* API turns into.  body.json is None when the text is not JSON
\* (response.json() raises).
ResponseResult(status_code, body) ==
    CASE status_code = 401 ->
            [raised |-> TRUE, value |-> None,
             message |-> <<"Authentication failed - token may be invalid">>]
      [] status_code = 403 ->
            [raised |-> TRUE, value |-> None,
             message |-> <<"Access forbidden - check organization permissions">>]
      [] status_code \notin {200, 401, 403} ->
            [raised |-> TRUE, value |-> None,
             message |-> <<"API request failed", status_code, body.text>>]
      [] OTHER ->
            IF body.json = None
            THEN [raised |-> TRUE, value |-> None, message |-> <<"JSONDecodeError">>]
            ELSE [raised |-> FALSE, value |-> body.json, message |-> <<>>]

\* JDOCClient._make_request: the token first, then the request, if any
MakeRequest(table, user_id, t, response, outcome) ==
    LET got == GetValidToken(table, user_id, t, response)
        sent == HasAccessToken(got.token)
    IN  [table |-> got.table, token |-> got.token, posts |-> got.posts,
         sent |-> sent, outcome |-> IF sent THEN outcome ELSE "no_token"]

\* what the token endpoint may answer during get_valid_token at time t: it
\* is asked only when the stored credential is expired and is refreshed
RefreshResponses(table, user_id, t, n) ==
    LET token_data == GetToken(table, user_id)
    IN  IF token_data = None THEN {FailedResponse}
        ELSE IF IsTokenExpired(token_data[1], t) /\ HasRefreshToken(token_data[1])
        THEN TokenResponses(n)
        ELSE {FailedResponse}

\* what the remote API may answer to _make_request: it is asked only when
\* get_valid_token returned a token
ApiOutcomes(got) == IF HasAccessToken(got.token) THEN Outcomes ELSE {"error"}

\* the 200 answers among the POSTs
Granted(posts) == Cardinality({i \in DOMAIN posts : posts[i].response.status = 200})

\* one operation of the token manager, as history keeps it: a code exchange
\* with its save_token, or a hierarchy call with its get_valid_token (the
\* error is the one _make_request raises before sending anything)
Exchanged(user_id, t, response, table_before, table_after) ==
    [op |-> "exchange", user_id |-> user_id, at |-> t,
     token |-> IF response.status = 200 THEN Some(response.access_token) ELSE None,
     posts |-> <<TokenPost("authorization_code", None, response)>>,
     sent |-> FALSE, error |-> "",
     before |-> GetToken(table_before, user_id),
     after |-> GetToken(table_after, user_id),
     rows |-> Cardinality(RowsOf(table_after, user_id))]

Requested(user_id, t, table_before, made) ==
    [op |-> "request", user_id |-> user_id, at |-> t,
     token |-> made.token, posts |-> made.posts, sent |-> made.sent,
     error |-> IF made.sent THEN "" ELSE made.outcome,
     before |-> GetToken(table_before, user_id),
     after |-> GetToken(made.table, user_id),
     rows |-> Cardinality(RowsOf(made.table, user_id))]

\* a reading of the token manager's clock by a hierarchy call: the time of
\* the last operation, or a second later
AuthClock == {t \in {clock, clock + 1} : t <= MaxClock}

\* the farmer a pending state belongs to
FarmerOf(state) == (CHOOSE s \in oauth_states : s[1] = state)[2]

(* ---------------------- app/main.py: the OAuth flow ------------------- *)
\* GET /auth/login: a fresh state is remembered with the farmer
Login ==
    /\ \E farmer_id \in {None} \cup {Some(u) : u \in Users \ {"anonymous"}},
          state \in States :
          /\ \A s \in oauth_states : s[1] # state
          /\ \A other \in States :
                other < state => \E s \in oauth_states : s[1] = other
          /\ oauth_states' = oauth_states \cup
                {<<state, IF farmer_id = None THEN "anonymous" ELSE farmer_id[1]>>}
    /\ UNCHANGED <<clock, user_tokens, issued, history, oauth_log, probe>>
    /\ UNCHANGED <<now, store, reqs, started, faults>>

\* (a variant that leaves the state pending)
ConsumeStateKeeps(states, state) == states

\* oauth_states.pop(state)
ConsumeState(states, state) == {s \in states : s[1] # state}

\* the callback after the state check: without a code nothing more happens;
\* with one it is exchanged, the token set saved, and the organizations
\* listed (check_connections_needed) with the token just stored
Authorize(farmer_id, code) ==
    \E t \in {clock} :
    \E response \in TokenResponses(issued + 1) :
    \E response2 \in RefreshResponses(
            SaveToken(user_tokens, farmer_id, TokenData(response, t), t),
            farmer_id, t, issued + 2) :
    \E outcome \in ApiOutcomes(GetValidToken(
            SaveToken(user_tokens, farmer_id, TokenData(response, t), t),
            farmer_id, t, response2)) :
    LET saved == SaveToken(user_tokens, farmer_id, TokenData(response, t), t)
        made == MakeRequest(saved, farmer_id, t, response2, outcome)
    IN  IF code = None
        THEN UNCHANGED <<clock, user_tokens, issued, history,
                         connected_organizations>>
        ELSE IF response.status # 200
        THEN /\ history' = Append(history,
                   Exchanged(farmer_id, t, response, user_tokens, user_tokens))
             /\ clock' = t
             /\ UNCHANGED <<user_tokens, issued, connected_organizations>>
        ELSE /\ user_tokens' = made.table
             /\ history' = history \o
                   << Exchanged(farmer_id, t, response, user_tokens, saved),
                      Requested(farmer_id, t, saved, made) >>
             /\ issued' = issued + 1 + Granted(made.posts)
             /\ clock' = t
             /\ connected_organizations' =
                   IF made.outcome = "ok"
                   THEN SaveOrganizations(connected_organizations, farmer_id)
                   ELSE connected_organizations

\* GET /auth/callback with a pending state: the state is consumed and the
\* authorization completed
Callback ==
    /\ Len(history) + 2 <= MaxAuthOps
    /\ \E state \in {s[1] : s \in oauth_states}, code \in {None, Some("code")} :
          /\ oauth_states' = ConsumeState(oauth_states, state)
          /\ Authorize(FarmerOf(state), code)
    /\ UNCHANGED <<now, field_sync_state, organizations, fields, operations_raw,
                   operations_normalized, reqs, started, faults, oauth_log, probe>>

\* a callback that is turned away: an error from the provider, or a state
\* that is not pending
CallbackRejected ==
    /\ \E error \in {None, Some("access_denied")}, state \in {None} \cup {Some(s) : s \in States} :
          IF error # None \/ state = None THEN TRUE
          ELSE \A s \in oauth_states : s[1] # state[1]
    /\ UNCHANGED vars

\* one remote hierarchy call: get_organizations, get_fields or
\* get_field_operations, through _make_request
HierarchyCall ==
    /\ Len(history) < MaxAuthOps
    /\ \E user_id \in Users, what \in Endpoints, t \in AuthClock :
          \E response \in RefreshResponses(user_tokens, user_id, t, issued + 1) :
          \E outcome \in ApiOutcomes(GetValidToken(user_tokens, user_id, t, response)) :
          LET made == MakeRequest(user_tokens, user_id, t, response, outcome)
          IN  /\ user_tokens' = made.table
              /\ history' = Append(history,
                                   Requested(user_id, t, user_tokens, made))
              /\ issued' = issued + Granted(made.posts)
              /\ clock' = t
              /\ connected_organizations' =
                    IF what = "organizations" /\ made.outcome = "ok"
                    THEN SaveOrganizations(connected_organizations, user_id)
                    ELSE connected_organizations
    /\ UNCHANGED <<now, field_sync_state, organizations, fields, operations_raw,
                   operations_normalized, reqs, started, faults, oauth_states,
                   oauth_log, probe>>

NextToken ==
    \/ Login
    \/ Callback
    \/ CallbackRejected
    \/ HierarchyCall

SpecToken == Init /\ [][NextToken]_vars

(* ------------- the OAuth flow, every state value told apart ----------- *)
\* number of logins and callbacks in one behaviour
MaxOAuthOps == 4

Logins == {i \in DOMAIN oauth_log : oauth_log[i].op = "login"}
Callbacks == {i \in DOMAIN oauth_log : oauth_log[i].op = "callback"}

\* one login or callback as oauth_log keeps it: the state it issued or
\* looked up (None when it was missing or never read), where the handler
\* left, whether the code was exchanged and whether save_token was called
Served(op, state, verdict, exchanged, stored) ==
    [op |-> op, state |-> state, verdict |-> verdict, exchanged |-> exchanged,
     stored |-> stored]

\* GET /auth/login: secrets.token_urlsafe(32) is a state never given before
LoginFresh ==
    /\ Len(oauth_log) < MaxOAuthOps
    /\ \E farmer_id \in {None, Some("farmer1")} :
          LET state == Cardinality(Logins) + 1
          IN  /\ oauth_states' = oauth_states \cup
                    {<<state, IF farmer_id = None THEN "anonymous" ELSE farmer_id[1]>>}
              /\ oauth_log' = Append(oauth_log,
                    Served("login", Some(state), "redirect", FALSE, FALSE))
    /\ UNCHANGED <<clock, user_tokens, issued, history, probe>>
    /\ UNCHANGED <<now, store, reqs, started, faults>>

\* GET /auth/callback with any query: an error from the provider (400), a
\* state that is missing or not pending (400), no code (400, the state
\* already consumed), or the authorization completed
CallbackAny ==
    /\ Len(oauth_log) < MaxOAuthOps
    /\ Len(history) + 2 <= MaxAuthOps
    /\ \E error \in {None, Some("access_denied")},
          state \in {None} \cup {Some(x) : x \in 1..Cardinality(Logins) + 1},
          code \in {None, Some("code")} :
          IF error # None
          THEN /\ oauth_log' = Append(oauth_log,
                     Served("callback", None, "error", FALSE, FALSE))
               /\ UNCHANGED <<clock, user_tokens, oauth_states, issued, history,
                              connected_organizations>>
          ELSE IF (IF state = None THEN TRUE
                   ELSE \A s \in oauth_states : s[1] # state[1])
          THEN /\ oauth_log' = Append(oauth_log,
                     Served("callback", state, "invalid_state", FALSE, FALSE))
               /\ UNCHANGED <<clock, user_tokens, oauth_states, issued, history,
                              connected_organizations>>
          ELSE /\ oauth_states' = ConsumeState(oauth_states, state[1])
               /\ Authorize(FarmerOf(state[1]), code)
               /\ oauth_log' = Append(oauth_log,
                     Served("callback", state,
                            IF code = None THEN "no_code" ELSE "exchange",
                            Len(history') > Len(history),
                            user_tokens' # user_tokens))
    /\ UNCHANGED <<now, field_sync_state, organizations, fields, operations_raw,
                   operations_normalized, reqs, started, faults, probe>>

NextOAuth ==
    \/ LoginFresh
    \/ CallbackAny

SpecOAuth == Init /\ [][NextOAuth]_vars

(* ------------- is_token_expired applied to arbitrary inputs ----------- *)
\* a token_data dict (its expires_at) and the time of the call
ProbeInputs ==
    {[expires_at |-> e, at |-> t, result |-> None] :
        e \in {None} \cup {Some(x) : x \in 0..MaxExpiresAt}, t \in 0..MaxClock}

InitExpiry == EngineInit /\ TokenInit /\ probe \in ProbeInputs

IsTokenExpiredCall ==
    /\ probe.result = None
    /\ probe' = [probe EXCEPT !.result = Some(IsTokenExpired(probe, probe.at))]
    /\ UNCHANGED <<clock, user_tokens, oauth_states, issued, history, oauth_log>>
    /\ UNCHANGED <<now, store, reqs, started, faults>>

NextExpiry == IsTokenExpiredCall

SpecExpiry == InitExpiry /\ [][NextExpiry]_vars

(* -------- the program's functions applied to arbitrary inputs -------- *)
\* number of records in a batch handed to the per-record loop
MaxBatch == 3

\* one element of "varieties"
Variety(name, productType) == JDict([name |-> name, productType |-> productType])

\* vendor records: what each key that normalize_operation reads may hold
RawOperations ==
    {[id |-> id, startDate |-> startDate, endDate |-> endDate,
      fieldOperationType |-> type, cropName |-> cropName,
      varieties |-> varieties, area |-> area] :
        id \in {None, Some("op1")},
        startDate \in {JNull, JStr(""), JStr("yesterday"), JNum(7)}
                          \cup {JIso(d) : d \in 0..MaxNow},
        endDate \in {JNull, JStr("yesterday"), JIso(MaxNow)},
        type \in {JNull} \cup {JStr(x) : x \in {"seeding", "harvest", "tillage",
                        "application", "Seeding", "HARVEST", "spraying"}},
        cropName \in {JNull, JStr("Corn"), JObj},
        varieties \in {JNull, JStr("x"), JList(<<>>), JList(<<JStr("x")>>),
                       JList(<<Variety(JStr("DKC63-42"), JStr("SEED"))>>),
                       JList(<<Variety(JObj, JStr("SEED"))>>),
                       JList(<<Variety(JNull, JNull),
                               Variety(JStr("P2"), JStr("SEED"))>>)},
        area \in {JAbsent, JNull, JStr("x")}
                     \cup {JDict([valueAsDouble |-> d, value |-> v, unit |-> u]) :
                              d \in {JNull, JNum(0), JNum(5)},
                              v \in {JNull, JNum(7)},
                              u \in {JNull, JStr("ac")}}}

\* a call of normalize_operation for field A of organization o1, after every
\* date a record carries
NormalizeInputs ==
    {[raw |-> raw, at |-> MaxNow + 1, done |-> FALSE, raised |-> FALSE,
      normalized |-> None, row |-> None] : raw \in RawOperations}

\* the records batches are made of: a well-formed one, one whose start does
\* not parse, one without dates, and one whose crop name is an object
BatchRecords ==
    { RawOp(Some("op1"), 1, "seeding", JStr("Corn")),
      [RawOp(Some("op2"), 1, "harvest", JStr("Corn")) EXCEPT
          !.startDate = JStr("yesterday")],
      [RawOp(None, 1, "harvest", JNull) EXCEPT !.startDate = JNull],
      RawOp(Some("op3"), 1, "tillage", JObj) }

RECURSIVE Batches(_)
Batches(n) ==
    IF n = 0 THEN {<<>>}
    ELSE Batches(n - 1) \cup
         {Append(b, x) : b \in {c \in Batches(n - 1) : Len(c) = n - 1},
                         x \in BatchRecords}

BatchInputs ==
    {[batch |-> b, at |-> MaxNow + 1, done |-> FALSE, normalized |-> <<>>,
      rows |-> <<>>] : b \in Batches(MaxBatch)}

\* the responses of the remote API: every status code, a JSON body or not
ResponseInputs ==
    {[status_code |-> c, body |-> b, done |-> FALSE, result |-> None] :
        c \in 100..599,
        b \in {[text |-> "{}", json |-> Some("{}")],
               [text |-> "Bad Gateway", json |-> None]}}

\* number of save_sync_state calls on one table
MaxSaves == 3

\* an empty field_sync_state table, no id given yet, no call made
EmptySyncStates == [table |-> EmptyBag, seq |-> 0, at |-> 0, saves |-> <<>>]

InitFunctions ==
    /\ EngineInit
    /\ TokenInit
    /\ \/ probe \in NormalizeInputs
       \/ probe \in BatchInputs
       \/ probe \in ResponseInputs
       \/ probe = EmptySyncStates

\* normalize_operation(raw, "A", "North", "o1", "Org One") and the row of
\* operations_normalized made of its result
NormalizeOperationCall ==
    /\ "raw" \in DOMAIN probe
    /\ ~probe.done
    /\ LET n == NormalizeOperation(probe.raw, "A", FieldName["A"], "o1",
                                   OrgName["o1"], probe.at)
       IN  probe' =
             IF NormalizeRaises(probe.raw, probe.at)
             THEN [probe EXCEPT !.done = TRUE, !.raised = TRUE]
             ELSE [probe EXCEPT !.done = TRUE, !.normalized = Some(n),
                                !.row = Some(NormalizedRow("o1", "A", DbRow(n, "A")))]
    /\ UNCHANGED <<clock, user_tokens, oauth_states, issued, history, oauth_log>>
    /\ UNCHANGED <<now, store, reqs, started, faults>>

\* the per-record loop over a batch and the rows of operations_normalized
\* made of its results
NormalizeBatch ==
    /\ "batch" \in DOMAIN probe
    /\ ~probe.done
    /\ LET normalized_ops == NormalizeAll(probe.batch, "A", FieldName["A"], "o1",
                                          OrgName["o1"], probe.at)
       IN  probe' = [probe EXCEPT
                        !.done = TRUE,
                        !.normalized = normalized_ops,
                        !.rows = [i \in 1..Len(normalized_ops) |->
                                     NormalizedRow("o1", "A",
                                                   DbRow(normalized_ops[i], "A"))]]
    /\ UNCHANGED <<clock, user_tokens, oauth_states, issued, history, oauth_log>>
    /\ UNCHANGED <<now, store, reqs, started, faults>>

\* _make_request receives a response
ResponseReceived ==
    /\ "status_code" \in DOMAIN probe
    /\ ~probe.done
    /\ probe' = [probe EXCEPT
                    !.done = TRUE,
                    !.result = Some(ResponseResult(probe.status_code, probe.body))]
    /\ UNCHANGED <<clock, user_tokens, oauth_states, issued, history, oauth_log>>
    /\ UNCHANGED <<now, store, reqs, started, faults>>

\* db.save_sync_state(farmer_id, org_id, field_id, field_name, sync_mode,
\* start_date, end_date) at time t, on the table the calls before it left
SaveSyncStateCall ==
    /\ "table" \in DOMAIN probe
    /\ Len(probe.saves) < MaxSaves
    /\ \E farmer_id \in Farmers, field_id \in {"A", "B"}, sync_mode \in Modes,
          start_date \in {Some(0), Some(1)}, t \in {probe.at, probe.at + 1} :
          LET org_id == OrgOf[field_id]
              row == SyncStateRow(FieldName[field_id], sync_mode, start_date,
                                  Some(MaxNow), t)
              after == SaveSyncStateRows(probe.table, probe.seq, farmer_id, org_id,
                                         field_id, row, t)
          IN  /\ t <= MaxNow
              /\ probe' = [table |-> after, seq |-> probe.seq + 1, at |-> t,
                           saves |-> Append(probe.saves,
                               [key |-> Key(farmer_id, org_id, field_id),
                                state |-> [row EXCEPT !.last_synced_at = None],
                                before |-> probe.table, after |-> after])]
    /\ UNCHANGED <<clock, user_tokens, oauth_states, issued, history, oauth_log>>
    /\ UNCHANGED <<now, store, reqs, started, faults>>

NextFunctions ==
    \/ NormalizeOperationCall
    \/ NormalizeBatch
    \/ ResponseReceived
    \/ SaveSyncStateCall

SpecFunctions == InitFunctions /\ [][NextFunctions]_vars

(* ------- get_valid_token, two calls interleaved at the refresh -------- *)
\* the coroutines that call get_valid_token
Callers == {1, 2}

\* a coroutine before its call: nothing read, nothing sent, nothing returned
IdleCall ==
    [pc |-> "idle", user_id |-> "", refresh_token |-> None, posted |-> FALSE,
     overlapped |-> FALSE, token |-> None, stored |-> None, at |-> 0]

\* no credential stored, no authorization pending, no call begun
InitInterleaved ==
    /\ EngineInit
    /\ TokenInit
    /\ probe = [calls |-> [c \in Callers |-> IdleCall]]

\* get_valid_token up to "await client.post(...)" of refresh_access_token:
\* the credential is read and, when it is expired and has a refresh token,
\* the refresh request is sent; otherwise the call returns at once
GetValidTokenBegin(c) ==
    /\ probe.calls[c].pc = "idle"
    /\ \E user_id \in Users, t \in AuthClock :
          LET token_data == GetToken(user_tokens, user_id)
              call == [probe.calls[c] EXCEPT !.user_id = user_id, !.at = t,
                                             !.stored = token_data]
              others == {d \in Callers \ {c} : /\ probe.calls[d].pc = "posting"
                                               /\ probe.calls[d].user_id = user_id}
          IN  /\ probe' = [probe EXCEPT !.calls[c] =
                    IF token_data = None
                    THEN [call EXCEPT !.pc = "done"]
                    ELSE IF IsTokenExpired(token_data[1], t)
                    THEN IF HasRefreshToken(token_data[1])
                         THEN [call EXCEPT !.pc = "posting", !.posted = TRUE,
                                           !.refresh_token = token_data[1].refresh_token,
                                           !.overlapped = others # {}]
                         ELSE [call EXCEPT !.pc = "done"]
                    ELSE [call EXCEPT !.pc = "done",
                                      !.token = Some(token_data[1].access_token)]]
              /\ clock' = t
    /\ UNCHANGED <<user_tokens, oauth_states, issued, history, oauth_log>>
    /\ UNCHANGED <<now, store, reqs, started, faults>>

\* the token endpoint answers the refresh request of call c: the try branch
\* saves and returns the new token, the except branch returns None
RefreshAnswered(c) ==
    /\ probe.calls[c].pc = "posting"
    /\ \E response \in TokenResponses(issued + 1), t \in AuthClock :
          LET call == probe.calls[c]
              got == IF response.status = 200
                     THEN RefreshSucceeded(user_tokens, call.user_id,
                                           TokenData(response, t), t)
                     ELSE RefreshFailed(user_tokens, call.user_id)
          IN  /\ user_tokens' = got.table
              /\ issued' = issued + (IF response.status = 200 THEN 1 ELSE 0)
              /\ clock' = t
              /\ probe' = [probe EXCEPT !.calls[c] =
                    [call EXCEPT !.pc = "done", !.token = got.token, !.at = t,
                                 !.stored = GetToken(got.table, call.user_id)]]
    /\ UNCHANGED <<oauth_states, history, oauth_log>>
    /\ UNCHANGED <<now, store, reqs, started, faults>>

\* the user authorizes once, before the calls under study begin
AuthorizedFirst ==
    /\ history = <<>>
    /\ \A c \in Callers : probe.calls[c].pc = "idle"
    /\ Callback

NextInterleaved ==
    \/ Login
    \/ AuthorizedFirst
    \/ \E c \in Callers : GetValidTokenBegin(c)
    \/ \E c \in Callers : RefreshAnswered(c)

SpecInterleaved == InitInterleaved /\ [][NextInterleaved]_vars

(* ======================= properties of the runs ======================= *)
\* a key without a previous sync: no row, or a row without last_synced_at
NoPriorSync(row) == row = None \/ row[1].last_synced_at = None

RunKey(req, field_id) == Key(req.farmer_id, OrgOf[field_id], field_id)

RawRows == BagToSet(operations_raw)
NormalizedRows == BagToSet(operations_normalized)

\* the operation_id the normalized row of a vendor record is expected under
ExpectedId(field_id, op) ==
    IF op.id # None THEN op.id ELSE <<field_id, op.startDate[2]>>

\* the vendor record op of a field is in both operation tables
Persisted(field_id, op) ==
    /\ \E y \in RawRows : y.field_id = field_id /\ y.raw_json = op
    /\ \E x \in NormalizedRows :
          x.field_id = field_id /\ x.operation_id = ExpectedId(field_id, op)

\* the fields whose operation fetch failed / returned in the run of req
FetchFailed(req) ==
    {req.calls[i].field_id : i \in {j \in DOMAIN req.calls :
        req.calls[j].what = "ops" /\ req.calls[j].outcome # "ok"}}
FetchReturned(req) ==
    {req.calls[i].field_id : i \in {j \in DOMAIN req.calls :
        req.calls[j].what = "ops" /\ req.calls[j].outcome = "ok"}}
\* the organizations whose field listing failed / returned in the run of req
ListFailed(req) ==
    {req.calls[i].org_id : i \in {j \in DOMAIN req.calls :
        req.calls[j].what = "fields" /\ req.calls[j].outcome # "ok"}}
ListReturned(req) ==
    {req.calls[i].org_id : i \in {j \in DOMAIN req.calls :
        req.calls[j].what = "fields" /\ req.calls[j].outcome = "ok"}}
\* the fields for which a store write failed in the run of req
StoreFailed(req) == {tag[2] : tag \in {x \in req.dbfail : x[1] \in {"raw", "insert", "field", "save"}}}
SeqSet(q) == {q[i] : i \in DOMAIN q}

\* C1: a single-field incremental sync of a key without a previous sync ends
\* at once with the 202 fallback answer (mode_used = full_history), makes no
\* remote call and leaves field_sync_state as it was.
C1_ColdStartFallback ==
    \A r \in Slots :
        LET req == reqs[r] IN
        (req.kind = "sync" /\ req.mode = "incremental"
            /\ NoPriorSync(req.before[RunKey(req, req.field_id)]))
        => /\ req.pc = "done"
           /\ req.response.status = 202
           /\ req.response.kind = "fallback"
           /\ req.response.mode_used = "full_history"
           /\ req.calls = <<>>
           /\ field_sync_state = req.before

\* a cold-start answer was given while other fields do have a sync state
C1_Witness ==
    \E r \in Slots :
        /\ reqs[r].kind = "sync" /\ reqs[r].mode = "incremental"
        /\ reqs[r].pc = "done" /\ reqs[r].response.status = 202
        /\ field_sync_state[RunKey(reqs[r], reqs[r].field_id)] = None
        /\ \E k \in Keys : field_sync_state[k] # None

\* C2: in an incremental snapshot, a field without a previous sync gets no
\* SyncState row during the run.
C2_SnapshotColdStartWritesNothing ==
    \A r \in Slots :
        LET req == reqs[r] IN
        (req.kind = "snapshot" /\ req.mode = "incremental")
        => \A k \in Keys : NoPriorSync(req.before[k]) =>
              field_sync_state[k] = req.before[k]

\* C3: in an incremental single-field sync or snapshot, the fetch of a field
\* whose stored state ends at T is asked from T on, and the state saved for
\* it starts at T.
C3_IncrementalContinuation ==
    \A r \in Slots :
        LET req == reqs[r] IN
        (req.kind \in {"sync", "snapshot"} /\ req.mode = "incremental")
        => \A i \in DOMAIN req.calls :
              LET c == req.calls[i]
                  k == Key(req.farmer_id, c.org_id, c.field_id)
              IN  (c.what = "ops" /\ ~NoPriorSync(req.before[k]))
                  => /\ c.start_date = req.before[k][1].last_sync_end_date
                     /\ k \in req.saved =>
                           field_sync_state[k][1].last_sync_start_date
                               = req.before[k][1].last_sync_end_date

\* an incremental single-field sync continued from a stored state and saved
C3_Witness ==
    \E r \in Slots :
        LET req == reqs[r]
            k == RunKey(req, req.field_id)
        IN  /\ req.kind = "sync" /\ req.mode = "incremental" /\ req.pc = "done"
            /\ k \in req.saved
            /\ req.before[k] # None
            /\ req.before[k][1].last_sync_start_date # req.before[k][1].last_sync_end_date
            /\ field_sync_state[k][1].last_sync_mode = "incremental"

\* C4: a field's SyncState window covers only operations that are stored in
\* operations_raw and operations_normalized.
C4_WatermarkCoversStoredWork ==
    \A k \in Keys :
        field_sync_state[k] # None =>
            LET row == field_sync_state[k][1]
                ops == GetFieldOperations(k[3], row.last_sync_start_date,
                                          row.last_sync_end_date)
            IN  \A i \in DOMAIN ops :
                    ~NormalizeRaises(ops[i], now) => Persisted(k[3], ops[i])

\* C5: when a sweep returns, every field whose fetch returned and whose
\* store writes succeeded has a SyncState row holding the sweep's window.
C5_SweepRecordsSyncState ==
    \A r \in Slots :
        LET req == reqs[r] IN
        (req.kind = "sweep" /\ req.pc = "done")
        => \A f \in FetchReturned(req) \ StoreFailed(req) :
              /\ field_sync_state[RunKey(req, f)] # None
              /\ field_sync_state[RunKey(req, f)][1].last_sync_start_date = req.start_date
              /\ field_sync_state[RunKey(req, f)][1].last_sync_end_date = req.end_date

\* C6: a field whose operation fetch failed in a run, or for which a store
\* write failed in it, has the SyncState row it had when the run began.
C6_FailedFieldKeepsSyncState ==
    \A r \in Slots :
        LET req == reqs[r] IN
        req.kind # "idle" =>
            \A f \in FetchFailed(req) \cup StoreFailed(req) :
                field_sync_state[RunKey(req, f)] = req.before[RunKey(req, f)]

\* a snapshot over fields with a stored state met a failing fetch
C6_Witness ==
    \E r \in Slots :
        LET req == reqs[r] IN
        /\ req.kind = "snapshot" /\ req.pc = "done"
        /\ \E f \in FetchFailed(req) : req.before[RunKey(req, f)] # None
        /\ req.saved # {}

\* C7: a sweep in which some operation fetch failed still returns its
\* aggregate result; every field of every listed organization was fetched,
\* and the operations of the fields that returned are stored (unless a
\* store write for that field failed).
C7_SweepIsolatesFieldFailure ==
    \A r \in Slots :
        LET req == reqs[r] IN
        (req.kind = "sweep" /\ req.pc = "done" /\ FetchFailed(req) # {})
        => /\ req.response.status = 200
           /\ req.response.kind = "success"
           /\ \A o \in ListReturned(req) : \A f \in SeqSet(RemoteFields[o]) :
                 /\ f \in FetchFailed(req) \cup FetchReturned(req)
                 /\ (f \in FetchReturned(req) /\ f \notin StoreFailed(req))
                    => LET ops == GetFieldOperations(f, req.start_date, req.end_date)
                       IN  \A i \in DOMAIN ops :
                               ~NormalizeRaises(ops[i], now) => Persisted(f, ops[i])

\* the fetch of B failed; A before it and C after it are stored
C7_Witness ==
    \E r \in Slots :
        LET req == reqs[r] IN
        /\ req.kind = "sweep" /\ req.pc = "done"
        /\ FetchFailed(req) = {"B"}
        /\ {"A", "C"} \subseteq FetchReturned(req)
        /\ Persisted("A", RemoteOps["A"][1])
        /\ Persisted("C", RemoteOps["C"][1])

\* C8: in a sweep or snapshot that went past get_organizations, the fields of
\* an organization whose listing failed are not fetched, every organization
\* of the run is listed, and every field of a listed organization is fetched.
C8_OrgListingFailureIsolated ==
    \A r \in Slots :
        LET req == reqs[r] IN
        (req.kind \in {"sweep", "snapshot"} /\ req.pc = "done"
            /\ req.response.status = 200)
        => /\ \A o \in ListFailed(req) : \A i \in DOMAIN req.calls :
                 req.calls[i].what = "ops" => req.calls[i].org_id # o
           /\ SeqSet(req.orgs) = ListFailed(req) \cup ListReturned(req)
           /\ \A o \in ListReturned(req) :
                 SeqSet(RemoteFields[o]) \subseteq FetchFailed(req) \cup FetchReturned(req)

\* the listing of o1 failed and the field of o2 was fetched and stored
C8_Witness ==
    \E r \in Slots :
        LET req == reqs[r] IN
        /\ req.kind = "sweep" /\ req.pc = "done"
        /\ ListFailed(req) = {"o1"}
        /\ "D" \in FetchReturned(req)
        /\ Persisted("D", RemoteOps["D"][1])

\* C9: in a sweep, a remote call that fails for want of a usable token or
\* with 401 is the last remote call of the run, and the run does not answer
\* with the success result.
C9_AuthFailureStopsSweep ==
    \A r \in Slots :
        LET req == reqs[r] IN
        req.kind = "sweep" =>
            \A i \in DOMAIN req.calls :
                req.calls[i].outcome = "auth"
                => /\ i = Len(req.calls)
                   /\ req.pc = "done" => req.response.status # 200

\* C10: every row of operations_normalized has a row of operations_raw with
\* the same operation_id.
C10_NormalizedTraceableToRaw ==
    \A x \in NormalizedRows : \E y \in RawRows : y.operation_id = x.operation_id

\* C11: however often the same raw operation of a field is persisted,
\* operations_raw holds exactly one row for it, whether or not the record
\* carries a vendor id.
C11_RawUpsertIdempotent ==
    \A row \in RawRows :
        Cardinality({x \in RawRows : x.field_id = row.field_id
                                      /\ x.raw_json = row.raw_json}) = 1
        /\ CopiesIn(row, operations_raw) = 1

\* C12: when two single-field syncs of the same key have both saved their
\* SyncState, the row is the one of the sync that resolved its window last.
C12_SameFieldSyncsSerialized ==
    \A r1, r2 \in Slots :
        LET a == reqs[r1]
            b == reqs[r2]
            k == RunKey(b, b.field_id)
        IN  (/\ a.kind = "sync" /\ b.kind = "sync"
             /\ a.pc = "done" /\ b.pc = "done"
             /\ a.seq < b.seq
             /\ RunKey(a, a.field_id) = k
             /\ k \in a.saved /\ k \in b.saved)
            => /\ field_sync_state[k][1].last_sync_start_date = b.start_date
               /\ field_sync_state[k][1].last_sync_end_date = b.end_date

(* ===================== properties of the tokens ====================== *)
\* the lifetime the token endpoint granted with an answer, in seconds
Lifetime(response) ==
    IF response.expires_in = None THEN 12 * 60 * 60 ELSE response.expires_in[1]

\* a stored credential with at most five minutes left at time t
WithinMargin(row, t) == row.expires_at = None \/ row.expires_at[1] - t <= 5 * 60

Requests == {i \in DOMAIN history : history[i].op = "request"}
Exchanges == {i \in DOMAIN history : history[i].op = "exchange"}

\* the hierarchy calls in which get_valid_token asked for a refresh
Refreshing == {i \in Requests : history[i].posts # <<>>}

\* j is the first operation of i's user after i
NextOfUser(i, j) ==
    /\ i < j
    /\ history[j].user_id = history[i].user_id
    /\ \A m \in DOMAIN history :
          (i < m /\ m < j) => history[m].user_id # history[i].user_id

\* C13: is_token_expired answers true exactly when expires_at is absent or
\* now >= expires_at - 5 minutes: true with 4min59s left, false with 5min01s.
C13_ExpiredWithinFiveMinutes ==
    probe.result # None =>
        LET expired == probe.result[1]
        IN  /\ expired <=> (probe.expires_at = None
                            \/ probe.at >= probe.expires_at[1] - 5 * 60)
            /\ probe.expires_at = Some(probe.at + 4 * 60 + 59) => expired
            /\ probe.expires_at = Some(probe.at + 5 * 60 + 1) => ~expired

\* a credential with 5min01s left was judged, some time after 0
C13_Witness ==
    /\ probe.result = Some(FALSE)
    /\ probe.at > 0
    /\ probe.expires_at = Some(probe.at + 5 * 60 + 1)

\* C14: when get_valid_token refreshes an expired credential and the token
\* endpoint answers 200, the user's one row holds the answer's token set
\* when the call returns, and the call returns the answer's access token.
C14_RefreshPersistsAndReturns ==
    \A i \in Refreshing :
        LET h == history[i]
            response == h.posts[1].response
        IN  response.status = 200 =>
              /\ h.token = Some(response.access_token)
              /\ h.rows = 1
              /\ h.after # None
              /\ h.after[1].user_id = h.user_id
              /\ h.after[1].access_token = response.access_token
              /\ h.after[1].refresh_token = response.refresh_token
              /\ h.after[1].expires_at = Some(h.at + Lifetime(response))
              /\ i = Len(history) => GetToken(user_tokens, h.user_id) = h.after

\* an expired credential was refreshed and replaced by a different token
C14_Witness ==
    \E i \in Refreshing :
        LET h == history[i]
        IN  /\ h.posts[1].response.status = 200
            /\ h.before # None /\ h.after # None
            /\ h.after[1].access_token # h.before[1].access_token
            /\ h.token = Some(h.after[1].access_token)

\* C15: when the refresh inside get_valid_token fails, get_valid_token
\* returns None (its caller goes on to its own no-token error) and the
\* user's stored credential is as it was before the call.
C15_FailedRefreshReturnsNone ==
    \A i \in Refreshing :
        LET h == history[i]
        IN  h.posts[1].response.status # 200 =>
              /\ h.token = None
              /\ h.error = "no_token"
              /\ h.after = h.before
              /\ i = Len(history) => GetToken(user_tokens, h.user_id) = h.before

\* a refresh failed for a user who had a credential with a refresh token
C15_Witness ==
    \E i \in Refreshing :
        LET h == history[i]
        IN  /\ h.posts[1].response.status # 200
            /\ h.before # None /\ h.before[1].refresh_token # None
            /\ h.after = h.before
            /\ h.token = None

\* C16: get_valid_token returns None, without a POST to the token endpoint
\* and without a write to user_tokens, when the user has no credential or
\* has an expired one without a refresh token.
C16_NoCredentialNoCall ==
    \A i \in Requests :
        LET h == history[i]
        IN  (h.before = None
             \/ (WithinMargin(h.before[1], h.at) /\ h.before[1].refresh_token = None))
            => /\ h.token = None
               /\ h.posts = <<>>
               /\ h.after = h.before

\* an expired credential without a refresh token was met, and a user
\* without any credential asked as well
C16_Witness ==
    /\ \E i \in Requests :
          /\ history[i].before # None
          /\ WithinMargin(history[i].before[1], history[i].at)
          /\ history[i].before[1].refresh_token = None
          /\ history[i].token = None
    /\ \E i \in Requests : history[i].before = None /\ history[i].token = None

\* C17 as stated: starting from a stored credential inside the margin with
\* a refresh token, two successive get_valid_token calls of the user return
\* the same access token and make one POST to the token endpoint in total.
C17_TwoCallsOneRefresh ==
    \A i \in Requests : \A j \in Requests :
        LET a == history[i]
            b == history[j]
        IN  (/\ NextOfUser(i, j)
             /\ a.before # None
             /\ WithinMargin(a.before[1], a.at)
             /\ a.before[1].refresh_token # None)
            => /\ a.token = b.token
               /\ Len(a.posts) + Len(b.posts) = 1

\* C17, amended: the same, provided the refresh of the first call is
\* answered 200 and the second call comes before the refreshed credential
\* enters the margin; the token returned twice is the refreshed one.
C17_TwoCallsOneRefreshWhileFresh ==
    \A i \in Requests : \A j \in Requests :
        LET a == history[i]
            b == history[j]
        IN  (/\ NextOfUser(i, j)
             /\ a.before # None
             /\ WithinMargin(a.before[1], a.at)
             /\ a.before[1].refresh_token # None
             /\ a.posts # <<>>
             /\ a.posts[1].response.status = 200
             /\ b.at < a.at + Lifetime(a.posts[1].response) - 5 * 60)
            => /\ a.token = b.token
               /\ a.token = Some(a.posts[1].response.access_token)
               /\ Len(a.posts) + Len(b.posts) = 1

\* a refreshed token was returned again, a second later, without a POST
C17_Witness ==
    \E i \in Refreshing : \E j \in Requests :
        /\ NextOfUser(i, j)
        /\ history[i].posts[1].response.status = 200
        /\ history[j].at > history[i].at
        /\ history[j].posts = <<>>
        /\ history[j].token = history[i].token
        /\ history[j].token # None

\* C18 as stated: after a code exchange whose token set was stored for a
\* user, the user's next get_valid_token returns the exchanged access token.
C18_ExchangeRestoresToken ==
    \A i \in Exchanges : \A j \in Requests :
        (NextOfUser(i, j) /\ history[i].token # None)
        => history[j].token = history[i].token

\* C18, amended: the same, provided that call comes before the exchanged
\* credential enters the expiry margin.
C18_ExchangeRestoresTokenWhileFresh ==
    \A i \in Exchanges : \A j \in Requests :
        (/\ NextOfUser(i, j)
         /\ history[i].token # None
         /\ history[j].at < history[i].at
                            + Lifetime(history[i].posts[1].response) - 5 * 60)
        => /\ history[j].token = history[i].token
           /\ history[j].posts = <<>>

\* a user whose stored credential yielded no token exchanged a code and
\* then got the exchanged token
C18_Witness ==
    \E i \in Requests : \E j \in Exchanges : \E k \in Requests :
        /\ NextOfUser(i, j) /\ NextOfUser(j, k)
        /\ history[i].before # None
        /\ history[i].token = None
        /\ history[j].token # None
        /\ history[k].token = history[j].token

\* C19: user_tokens holds at most one row per user_id, and every token set
\* stored after an exchange or a refresh has expires_at = now + expires_in,
\* with 43200 s when the answer carries no expires_in.
C19_OneCredentialWithExpiry ==
    /\ \A u \in Users :
          /\ Cardinality(RowsOf(user_tokens, u)) <= 1
          /\ \A x \in RowsOf(user_tokens, u) :
                CopiesIn(x, user_tokens) = 1 /\ x.expires_at # None
    /\ \A i \in DOMAIN history :
          LET h == history[i]
          IN  (h.posts # <<>> /\ h.posts[1].response.status = 200)
              => /\ h.rows = 1
                 /\ h.after # None
                 /\ h.after[1].expires_at =
                       Some(h.at + (IF h.posts[1].response.expires_in = None
                                    THEN 43200
                                    ELSE h.posts[1].response.expires_in[1]))

\* both users hold a credential, one of them for the second time, and one
\* was granted without expires_in
C19_Witness ==
    /\ \A u \in Users : Cardinality(RowsOf(user_tokens, u)) = 1
    /\ \E i \in DOMAIN history :
          /\ history[i].before # None
          /\ history[i].posts # <<>>
          /\ history[i].posts[1].response.status = 200
          /\ history[i].after # history[i].before
    /\ \E x \in BagToSet(user_tokens) : x.expires_at = Some(x.updated_at + 43200)

\* C20: a remote hierarchy call for which get_valid_token returns no token
\* fails with the no-token error and sends nothing to the remote API; a
\* request is sent only with the token get_valid_token returned.
C20_NoTokenNoRequest ==
    \A i \in Requests :
        LET h == history[i]
        IN  /\ h.token = None => (~h.sent /\ h.error = "no_token")
            /\ h.sent => (h.token # None /\ h.error = "")

\* calls were turned away for want of a token, one after a failed refresh
\* and one of a user without credential, and another call was sent
C20_Witness ==
    /\ \E i \in Refreshing : history[i].token = None /\ ~history[i].sent
    /\ \E i \in Requests : history[i].before = None /\ ~history[i].sent
    /\ \E i \in Requests : history[i].sent

(* ------------------ the functions, input by input --------------------- *)
\* the calls of normalize_operation made so far that returned
Normalized == IF "raw" \in DOMAIN probe /\ probe.normalized # None THEN {probe} ELSE {}

\* C21: 401 yields the auth-invalid failure, 403 the permission-denied
\* failure, any other non-2xx status the request-failed failure carrying
\* status and body, and every 2xx status (with a JSON body) the decoded
\* result rather than a failure.
C21_StatusMapping ==
    ("status_code" \in DOMAIN probe /\ probe.done) =>
        LET c == probe.status_code
            got == probe.result[1]
        IN  /\ c = 401 => got.raised /\ got.message[1] = "Authentication failed - token may be invalid"
            /\ c = 403 => got.raised /\ got.message[1] = "Access forbidden - check organization permissions"
            /\ (c \notin 200..299 /\ c \notin {401, 403}) =>
                  got.raised /\ got.message = <<"API request failed", c, probe.body.text>>
            /\ (c \in 200..299 /\ probe.body.json # None) =>
                  ~got.raised /\ got.value = probe.body.json

\* C23: the vendor type, compared case-sensitively, maps seeding to
\* PLANTING, harvest to HARVEST, tillage to TILLAGE, application to
\* FERTILIZER and every other or absent value to OTHER; operation_type is
\* always one of the five, in the model and in the row made of it.
C23_TypeMapping ==
    \A p \in Normalized :
        LET type == p.raw.fieldOperationType
            got == p.normalized[1].operation_type
        IN  /\ got \in {"PLANTING", "HARVEST", "TILLAGE", "FERTILIZER", "OTHER"}
            /\ got = "PLANTING" <=> type = JStr("seeding")
            /\ got = "HARVEST" <=> type = JStr("harvest")
            /\ got = "TILLAGE" <=> type = JStr("tillage")
            /\ got = "FERTILIZER" <=> type = JStr("application")
            /\ p.row[1].operation_type = got

\* a record of type "Seeding" (capital S) was normalized to OTHER
C23_Witness ==
    \E p \in Normalized :
        /\ p.raw.fieldOperationType = JStr("Seeding")
        /\ p.normalized[1].operation_type = "OTHER"

\* C22: a callback exchanges a code or stores a credential only for a
\* state that a preceding login issued and that no earlier callback
\* consumed: each state leads to at most one exchange, a later callback
\* with a consumed state is rejected, and a callback whose state is missing
\* or was never issued exchanges nothing and stores nothing.
C22_StateConsumedOnce ==
    \A i \in Callbacks :
        LET h == oauth_log[i]
            issued_before == \E j \in Logins : j < i /\ oauth_log[j].state = h.state
            consumed_before ==
                \E j \in Callbacks :
                    /\ j < i
                    /\ oauth_log[j].state = h.state
                    /\ oauth_log[j].verdict \in {"no_code", "exchange"}
        IN  /\ (h.exchanged \/ h.stored) => (issued_before /\ ~consumed_before)
            /\ consumed_before => h.verdict \in {"error", "invalid_state"}
            /\ (h.state = None \/ ~issued_before) =>
                  (h.verdict \in {"error", "invalid_state"} /\ ~h.exchanged /\ ~h.stored)
            /\ \A j \in Callbacks :
                  (j # i /\ oauth_log[j].exchanged /\ h.exchanged) =>
                      oauth_log[j].state # h.state

\* a callback exchanged the code of an issued state and stored the
\* credential, a second callback with that state was turned away, and so
\* was one with a state that no login had issued
C22_Witness ==
    \E i, j, k \in Callbacks :
        /\ i < j
        /\ oauth_log[i].exchanged /\ oauth_log[i].stored
        /\ oauth_log[j].state = oauth_log[i].state
        /\ oauth_log[j].verdict = "invalid_state"
        /\ oauth_log[k].state # None
        /\ \A l \in Logins : oauth_log[l].state # oauth_log[k].state
        /\ oauth_log[k].verdict = "invalid_state"

\* C24: a seeding record with a crop name and a non-empty varieties list
\* is normalized to PLANTING with the record's crop name, the first
\* variety's name as product_name and the first variety's productType as
\* product_category, in the model and in the row made of it.
C24_SeedingExample ==
    \A p \in Normalized :
        (/\ p.raw.fieldOperationType = JStr("seeding")
         /\ p.raw.cropName = JStr("Corn")
         /\ p.raw.varieties = JList(<<Variety(JStr("DKC63-42"), JStr("SEED"))>>)) =>
            /\ p.normalized[1].operation_type = "PLANTING"
            /\ p.normalized[1].crop_name = Some("Corn")
            /\ p.normalized[1].product_name = Some("DKC63-42")
            /\ p.row[1].operation_type = "PLANTING"
            /\ p.row[1].crop_name = Some("Corn")
            /\ p.row[1].product_name = Some("DKC63-42")
            /\ p.row[1].product_category = Some("SEED")

\* the batches the per-record loop has gone through
Batched == IF "batch" \in DOMAIN probe /\ probe.done THEN {probe} ELSE {}

\* the date a record should get at time t: the day of its start when that
\* parses, the day of its end when it has no start, else t
DateExpected(raw, t) ==
    IF raw.startDate[1] = "iso" THEN raw.startDate[2]
    ELSE IF raw.startDate \in {JNull, JStr("")} /\ raw.endDate[1] = "iso"
    THEN raw.endDate[2]
    ELSE t

\* C25: the date is the start timestamp, else the end timestamp; a chosen
\* string that does not parse, or no date at all, gives the current time
\* and no failure: a record fails only for a field other than its dates,
\* and a batch of N records none of which has such a field yields N
\* normalized records.
C25_DateFallback ==
    /\ \A p \in Normalized : p.normalized[1].date = DateExpected(p.raw, p.at)
    /\ ("raw" \in DOMAIN probe /\ probe.raised) =>
          \/ probe.raw.cropName = JObj
          \/ probe.raw.varieties = JList(<<Variety(JObj, JStr("SEED"))>>)
    /\ \A p \in Batched :
          (\A i \in DOMAIN p.batch : p.batch[i].cropName # JObj) =>
              /\ Len(p.normalized) = Len(p.batch)
              /\ \A i \in DOMAIN p.batch :
                    p.normalized[i].date = DateExpected(p.batch[i], p.at)

\* a batch of MaxBatch records, the second with a start that does not parse,
\* gave MaxBatch normalized records, the second dated now
C25_Witness ==
    \E p \in Batched :
        /\ Len(p.batch) = MaxBatch
        /\ p.batch[1].startDate = JIso(1)
        /\ p.batch[2].startDate = JStr("yesterday")
        /\ Len(p.normalized) = MaxBatch
        /\ p.normalized[1].date = 1
        /\ p.normalized[2].date = p.at

\* C27: crop_name is the record's direct crop field when present, and
\* otherwise the name of the first element of its varieties list.
C27_CropNameFallback ==
    \A p \in Normalized :
        /\ p.raw.cropName[1] = "str" => p.normalized[1].crop_name = Some(p.raw.cropName[2])
        /\ (/\ p.raw.cropName = JNull
            /\ p.raw.varieties = JList(<<Variety(JStr("DKC63-42"), JStr("SEED"))>>)) =>
              p.normalized[1].crop_name = Some("DKC63-42")

\* C28: with an area object, area is its valueAsDouble whenever that is
\* present (zero included) and its value only otherwise; area_unit is its
\* unit, or "ha" when it has none.
C28_AreaPreference ==
    \A p \in Normalized :
        p.raw.area[1] = "dict" =>
            LET area_obj == p.raw.area[2]
            IN  /\ area_obj.valueAsDouble # JNull =>
                      p.normalized[1].area = Some(area_obj.valueAsDouble[2])
                /\ area_obj.valueAsDouble = JNull =>
                      p.normalized[1].area = Optional(area_obj.value)
                /\ p.normalized[1].area_unit =
                      IF area_obj.unit = JNull THEN Some("ha")
                      ELSE Some(area_obj.unit[2])

\* C26: a record whose normalization raises is skipped and the other
\* records of its batch are normalized and stored (unless a store write for
\* the field failed), in the normalized-operations request and in the
\* sweep; the request still answers, with a count that leaves out the
\* skipped records.
C26_RaisingRecordSkipped ==
    /\ \A f \in FieldIds : \A i \in DOMAIN RemoteOps[f] :
          NormalizeRaises(RemoteOps[f][i], now) =>
              \A x \in NormalizedRows :
                  x.operation_id # ExpectedId(f, RemoteOps[f][i])
    /\ \A r \in Slots :
          LET req == reqs[r]
              kept == {i \in DOMAIN req.raw_ops : ~NormalizeRaises(req.raw_ops[i], now)}
          IN  /\ (req.kind = "normalized" /\ req.pc = "done"
                    /\ FetchReturned(req) # {}) =>
                    /\ req.response.status = 200
                    /\ req.response.count = Cardinality(kept)
                    /\ req.field_id \notin StoreFailed(req) =>
                          \A i \in kept : Persisted(req.field_id, req.raw_ops[i])
              /\ (req.kind = "sweep" /\ req.pc = "done") =>
                    \A f \in FetchReturned(req) \ StoreFailed(req) :
                        LET ops == GetFieldOperations(f, req.start_date, req.end_date)
                        IN  \A i \in DOMAIN ops :
                                ~NormalizeRaises(ops[i], now) => Persisted(f, ops[i])

\* field B's batch of two was normalized: the tillage record, whose crop
\* name is an object, was skipped and the harvest record stored; the
\* answer counts one operation
C26_Witness ==
    \E r \in Slots :
        LET req == reqs[r] IN
        /\ req.kind = "normalized" /\ req.pc = "done"
        /\ req.field_id = "B"
        /\ Len(req.raw_ops) = 2
        /\ NormalizeRaises(req.raw_ops[1], now)
        /\ req.response.count = 1
        /\ Persisted("B", req.raw_ops[2])

\* C30: a raw operation is stored under the vendor's id when the record has
\* one and otherwise under the composite of field id and operation date,
\* and the normalized row of the same operation carries the same
\* operation_id as its raw row.
C30_OperationIdRule ==
    /\ \A y \in RawRows : y.operation_id = ExpectedId(y.field_id, y.raw_json)
    /\ \A x \in NormalizedRows : \A y \in RawRows :
          (/\ y.field_id = x.field_id
           /\ ExpectedId(y.field_id, y.raw_json) = x.operation_id) =>
              y.operation_id = x.operation_id

\* the save_sync_state calls made on the table so far
Saves == IF "table" \in DOMAIN probe THEN DOMAIN probe.saves ELSE {}

\* the rows of a table under a key, and the rest of the table
KeyRows(table, key) ==
    {x \in BagToSet(table) : Key(x.farmer_id, x.org_id, x.field_id) = key}
OtherRows(table, key) ==
    [x \in BagToSet(table) \ KeyRows(table, key) |-> CopiesIn(x, table)]

\* a table without the columns save_sync_state fills in by itself: the
\* AUTOINCREMENT id and the three timestamps
Unstamped(table) ==
    {[x EXCEPT !.id = 0, !.last_synced_at = None, !.created_at = 0,
               !.updated_at = 0] : x \in BagToSet(table)}

\* what C29 says of every save: one row per key afterwards, the key's row
\* holding the saved window and mode, the other keys' rows as before
SaveReplacesByKey(i) ==
    LET s == probe.saves[i]
    IN  /\ \A x \in BagToSet(s.after) :
              /\ CopiesIn(x, s.after) = 1
              /\ Cardinality(KeyRows(s.after, Key(x.farmer_id, x.org_id, x.field_id))) = 1
        /\ \E x \in KeyRows(s.after, s.key) :
              /\ x.last_sync_mode = s.state.last_sync_mode
              /\ x.last_sync_start_date = s.state.last_sync_start_date
              /\ x.last_sync_end_date = s.state.last_sync_end_date
        /\ OtherRows(s.after, s.key) = OtherRows(s.before, s.key)

\* C29: field_sync_state holds at most one row per key; a save replaces the
\* key's row with the latest window and mode and leaves the other keys'
\* rows unchanged; saving the same state twice gives the same table as
\* saving it once.
C29_SaveSyncStateIdempotent ==
    \A i \in Saves :
        /\ SaveReplacesByKey(i)
        /\ (i > 1 /\ probe.saves[i - 1].key = probe.saves[i].key
                  /\ probe.saves[i - 1].state = probe.saves[i].state) =>
              probe.saves[i].after = probe.saves[i - 1].after

\* C29, with twice-equals-once read on the columns the caller supplies:
\* saving the same state twice gives the same table as saving it once
\* except for the id and the timestamps of the replaced row.
C29_SaveSyncStateIdempotentUnstamped ==
    \A i \in Saves :
        /\ SaveReplacesByKey(i)
        /\ (i > 1 /\ probe.saves[i - 1].key = probe.saves[i].key
                  /\ probe.saves[i - 1].state = probe.saves[i].state) =>
              Unstamped(probe.saves[i].after) = Unstamped(probe.saves[i - 1].after)

\* the same state of one field was saved twice in a row into a table that
\* also holds the row of the other field
C29_Witness ==
    \E i \in Saves :
        /\ i > 1
        /\ probe.saves[i - 1].key = probe.saves[i].key
        /\ probe.saves[i - 1].state = probe.saves[i].state
        /\ Cardinality(BagToSet(probe.saves[i].after)) = 2

\* C31: every row of the fields table has an org_id for which a row exists
\* in the organizations table, also after runs in which an organization
\* upsert failed.
C31_FieldReferencesOrganization ==
    \A f \in FieldIds : fields[f] # None => fields[f][1] \in organizations

\* the fields of the organizations a sweep went through, and the vendor
\* records of those fields in the sweep's window
SweepFields(req) == UNION {SeqSet(RemoteFields[o]) : o \in SeqSet(req.orgs)}
SweepRecords(req) ==
    UNION {{<<f, i>> : i \in DOMAIN GetFieldOperations(f, req.start_date, req.end_date)} :
           f \in SweepFields(req)}

\* C32: the aggregate result of a farmer sweep reports the organizations,
\* fields and operations the run went through, and the counts are those of
\* the run without failures whatever field upsert, fetch, normalization or
\* insert failed along the way (runs whose field listings all returned).
C32_AggregateCountsIgnoreFailures ==
    \A r \in Slots :
        LET req == reqs[r]
        IN  (req.kind = "sweep" /\ req.pc = "done" /\ req.response.status = 200
             /\ ListFailed(req) = {}) =>
                /\ req.response.synced_organizations = Len(req.orgs)
                /\ req.response.synced_fields = Cardinality(SweepFields(req))
                /\ req.response.count = Cardinality(SweepRecords(req))

\* the remote calls of one kind a run made for one organization and field
CallsFor(req, what, org_id, field_id) ==
    {i \in DOMAIN req.calls :
        /\ req.calls[i].what = what
        /\ req.calls[i].org_id = org_id
        /\ req.calls[i].field_id = field_id}

\* C33: a remote call that fails is not retried: within one run the
\* operations of a field are fetched at most once and the fields of an
\* organization are listed at most once, and so is the organization list.
C33_NoRetry ==
    \A r \in Slots :
        /\ \A f \in FieldIds :
              Cardinality(CallsFor(reqs[r], "ops", OrgOf[f], f)) <= 1
        /\ \A o \in OrgIds :
              Cardinality(CallsFor(reqs[r], "fields", o, "")) <= 1
        /\ Cardinality(CallsFor(reqs[r], "orgs", "", "")) <= 1

\* a sweep came to its end after the operation fetch of one field and the
\* field listing of one organization had failed, with a later fetch answered
C33_Witness ==
    \E r \in Slots :
        LET req == reqs[r]
        IN  /\ req.kind = "sweep" /\ req.pc = "done"
            /\ \E i, j, k \in DOMAIN req.calls :
                  /\ req.calls[i].what = "ops" /\ req.calls[i].outcome # "ok"
                  /\ req.calls[j].what = "fields" /\ req.calls[j].outcome # "ok"
                  /\ req.calls[k].what = "ops" /\ req.calls[k].outcome = "ok"
                  /\ i < k

\* slot r takes up a new single-field sync request in this step
SyncArrives(r) == reqs'[r].seq # reqs[r].seq /\ reqs'[r].kind = "sync"

\* slot r completes a single-field sync in this step
SyncCompletes(r) ==
    /\ reqs[r].pc = "sync_fields"
    /\ reqs'[r].pc = "done"
    /\ reqs'[r].response.status = 200

InsertStep(r) ==
    /\ reqs[r].pc \in {"sweep_op", "norm_raw"}
    /\ reqs[r].ri > Len(reqs[r].raw_ops)
    /\ reqs'[r] # reqs[r]
InsertField(r) ==
    IF reqs[r].kind = "sweep" THEN reqs[r].fields[reqs[r].fi] ELSE reqs[r].field_id

\* the handler's list normalized_ops at the insert
InsertKept(r) ==
    IF reqs[r].kind = "sweep" THEN reqs[r].normalized_ops ELSE reqs'[r].normalized_ops

\* the rows a step added to operations_normalized
AddedRows == operations_normalized' (-) operations_normalized

\* C35: operations_normalized is append-only: no step modifies or deletes a
\* row, and a sync of a field whose window returned k operations adds k
\* rows carrying those operations' operation_ids, also when the same
\* operations were stored before.
C35_AppendOnly ==
    [][/\ operations_normalized \sqsubseteq operations_normalized'
       /\ \A r \in Slots : InsertStep(r) =>
            /\ BagCardinality(AddedRows) = Len(reqs[r].raw_ops)
            /\ \A i \in DOMAIN reqs[r].raw_ops :
                  \E x \in BagToSet(AddedRows) :
                      /\ x.field_id = InsertField(r)
                      /\ x.operation_id = ExpectedId(InsertField(r), reqs[r].raw_ops[i])
      ]_vars

\* C35, counting the operations that were kept: no step modifies or deletes
\* a row; a sync of a field adds one row for each returned operation that
\* was stored and normalized without an error, under that operation's
\* operation_id, and adds nothing when the insert fails.
C35_AppendOnlyKept ==
    [][/\ operations_normalized \sqsubseteq operations_normalized'
       /\ \A r \in Slots : InsertStep(r) =>
            IF <<"insert", InsertField(r)>> \in reqs'[r].dbfail \ reqs[r].dbfail
            THEN operations_normalized' = operations_normalized
            ELSE /\ BagCardinality(AddedRows) = Len(InsertKept(r))
                 /\ \A i \in DOMAIN InsertKept(r) :
                       \E x \in BagToSet(AddedRows) :
                           /\ x.field_id = InsertField(r)
                           /\ x.operation_id =
                                ExpectedId(InsertField(r), InsertKept(r)[i].raw_jdoc_data)
                           /\ CopiesIn(x, AddedRows) = 1
                 /\ \A x \in BagToSet(AddedRows) :
                       \E i \in DOMAIN InsertKept(r) :
                           x.operation_id =
                               ExpectedId(InsertField(r), InsertKept(r)[i].raw_jdoc_data)
      ]_vars

\* field B, whose window returns a record that does not normalize and one
\* that does, was synced twice: the row of the second record is there twice
C35_Witness ==
    \E x \in NormalizedRows :
        /\ x.field_id = "B"
        /\ CopiesIn(x, operations_normalized) = 2
        /\ \A y \in NormalizedRows : y.field_id = "B" => y = x

\* C36: over any sequence of syncs of a field, one after the other, the
\* stored last_sync_end_date never decreases, whatever the modes and the
\* end-date overrides.
C36_WatermarkMonotone ==
    [][\A k \in Keys :
          (field_sync_state[k] # None /\ field_sync_state'[k] # None) =>
              field_sync_state'[k][1].last_sync_end_date[1]
                  >= field_sync_state[k][1].last_sync_end_date[1]
      ]_vars

\* C37: every window recorded in field_sync_state has its start at or before
\* its end, in both modes and for every end-date override.
C37_WindowOrdered ==
    \A k \in Keys :
        field_sync_state[k] # None =>
            field_sync_state[k][1].last_sync_start_date[1]
                <= field_sync_state[k][1].last_sync_end_date[1]

\* the get_valid_token calls of a user that sent a refresh request
Refreshers(user_id) ==
    {c \in Callers : probe.calls[c].user_id = user_id /\ probe.calls[c].posted}

\* C38: when two get_valid_token calls for one user with an expired
\* credential interleave at the refresh request, at most one refresh request
\* goes to the provider, and no call returns None while a credential that is
\* not expired is stored for the user.
C38_InterleavedRefreshOnce ==
    \A user_id \in Users :
        /\ (\E c \in Refreshers(user_id) : probe.calls[c].overlapped)
              => Cardinality(Refreshers(user_id)) <= 1
        /\ \A c \in Refreshers(user_id) :
              (/\ probe.calls[c].pc = "done"
               /\ probe.calls[c].stored # None
               /\ ~WithinMargin(probe.calls[c].stored[1], probe.calls[c].at))
              => probe.calls[c].token # None

\* C39: after every successful refresh made by get_valid_token the stored
\* credential holds a refresh token, also when the refresh answer carried
\* none.
C39_RefreshKeepsRefreshToken ==
    \A i \in Requests :
        (/\ history[i].posts # <<>>
         /\ history[i].posts[1].response.status = 200)
        => /\ history[i].after # None
           /\ history[i].after[1].refresh_token # None

\* the history entries this step added
NewEntries == (DOMAIN history') \ (DOMAIN history)

\* C40: when the stored credential is not expired, get_valid_token returns
\* the stored access token, sends nothing to the token endpoint and leaves
\* user_tokens as it is.
C40_FreshTokenReturnedUntouched ==
    [][\A i \in NewEntries :
          LET e == history'[i]
          IN  (/\ e.op = "request"
               /\ e.before # None
               /\ ~WithinMargin(e.before[1], e.at))
              => /\ e.token = Some(e.before[1].access_token)
                 /\ e.posts = <<>>
                 /\ e.after = e.before
                 /\ e.rows = 1
                 /\ issued' = issued + Cardinality(NewEntries) - 1
                 /\ Cardinality(NewEntries) = 1 => user_tokens' = user_tokens
      ]_vars

\* the last call, made some time after the credential was stored, found it
\* with more than five minutes left and was sent with its access token
C40_Witness ==
    /\ history # <<>>
    /\ LET e == history[Len(history)]
       IN  /\ e.op = "request"
           /\ e.before # None
           /\ ~WithinMargin(e.before[1], e.at)
           /\ e.sent
           /\ e.at > e.before[1].updated_at

====
